---- MODULE Spec2Model ----
(***************************************************************************)
(* The loop distribution pass of lib/Transforms/Scalar/LoopDistribute.cpp. *)
(*                                                                         *)
(* LoopDistribute::processLoop is modelled as a state machine over an      *)
(* abstract IR: the loop's instructions with their operands, the control   *)
(* flow graph, the dominator tree, LoopInfo, the PHIs of the exit block    *)
(* and the users of loop values outside the loop.  The answers of          *)
(* LoopAccessAnalysis (canVectorizeMemory, the interesting dependences,    *)
(* needsAnyChecking) are inputs drawn when the code asks for them.         *)
(***************************************************************************)
EXTENDS Integers, Sequences, FiniteSets, TLC

\* ------------------------------------------------------------------ bounds
\* Most body instructions (loads, stores, other computations) of a loop.
MaxBody == 3
\* Most possibly-backward dependences LoopAccessAnalysis reports.
MaxDeps == 2
\* Most users outside the loop of one loop-defined value.
MaxUsers == 2

\* Body length of the loops whose surroundings (preheader form, outside
\* users, exit PHIs) are varied.
SmallBody == MaxBody - 1
\* Most loop-defined values used outside the loop.
MaxOut == MaxUsers

\* --------------------------------------------------- program constants
\* InstToPartitionId entry of an instruction duplicated across partitions.
Ambiguous == -1
\* PtrToPartitions entry before any access instruction was seen.
Unset == -2
\* Width of `unsigned NumUnsafeDependencesStartOrEnd` and of `int`.
IntBits == 32

\* ------------------------------------------------------ instruction ids
\* Body instructions are 1..Len(body) in program order, at most BodyCap of
\* them.  The loop scaffolding follows: an address base defined before the
\* loop, the induction PHI, its increment, the exit compare and one
\* terminator per loop block.
BodyCap == MaxBody + 2
BASE == BodyCap + 1
IV == BodyCap + 2
INC == BodyCap + 3
CMP == BodyCap + 4
BrH == BodyCap + 5
BrT == BodyCap + 6
BrL == BodyCap + 7

\* Copies of the loop: 0 is the original loop, p + 1 the clone made for the
\* partition at position p (".ldist<p+1>"), NonDist the fallback clone
\* (".ldist.nondist").
Orig == 0
NonDist == 0 - 1
NoCopy == 0 - 2
\* A value reference is <<copy, instruction>>; Undef is the UndefValue that
\* replaceAllUsesWith puts in place of a deleted instruction.
Undef == <<NoCopy, 0>>
\* A block is <<copy, name>>.
NoBlock == <<NoCopy, "none">>

\* ------------------------------------------------------------ the input
\* fn describes the function the pass runs on:
\*   body    the body instructions: kind and (for a store or a computation)
\*           the one earlier body instruction it uses, 0 for none
\*   pred    0: single-block loop; i: three-block loop (header, conditional
\*           block, latch) with body instruction i in the conditional block
\*   users   for each value, its users outside the loop in use-list order:
\*           "phi" a single-operand PHI at the start of the exit block,
\*           "direct" any other instruction
\*   form    the preheader: "empty" (terminator only, single predecessor),
\*           "nonempty", "entry" (no predecessor), "multi" (two
\*           predecessors), "nopreheader", and "multiexit" (two exit blocks)
\*   nonIfConv, addMemchecks   the command line flags
BodyInst == [kind : {"load", "store", "other"}, op : 0..MaxBody]

WellFormed(b) ==
    \A i \in DOMAIN b :
        /\ b[i].kind = "load" => b[i].op = 0
        /\ b[i].kind = "store" =>
              b[i].op = 0 \/ (b[i].op < i /\ b[b[i].op].kind # "store")
        /\ b[i].kind = "other" =>
              b[i].op \in 1..(i - 1) /\ b[b[i].op].kind # "store"

Bodies(n) == {b \in [1..n -> BodyInst] : WellFormed(b)}

BodiesUpTo(n) == UNION {Bodies(k) : k \in 1..n}

\* Values that may have users outside the loop.
Candidates(b) == {i \in DOMAIN b : b[i].kind # "store"} \cup {IV, INC}

RECURSIVE SeqsOfLen(_, _)
SeqsOfLen(S, n) ==
    IF n = 0 THEN {<<>>}
    ELSE {Append(s, x) : s \in SeqsOfLen(S, n - 1), x \in S}

SeqsUpTo(S, n) == UNION {SeqsOfLen(S, k) : k \in 0..n}

\* At most maxOut values used outside, each by a user list drawn from cfgs.
UserCfgs(b, maxOut, cfgs) ==
    UNION {{[i \in 1..BrL |-> IF i \in D THEN u[i] ELSE <<>>] : u \in [D -> cfgs]} :
              D \in {X \in SUBSET Candidates(b) : Cardinality(X) <= maxOut}}

Stores(b) == {i \in DOMAIN b : b[i].kind = "store"}

\* The inputs built on body b.
InputsOn(b, preds, userCfgs, forms, nics, ams) ==
    {[body |-> b, pred |-> p, users |-> u, form |-> f,
      nonIfConv |-> nic, addMemchecks |-> am] :
        p \in preds, u \in userCfgs, f \in forms, nic \in nics, am \in ams}

\* Loops with every body and every placement of a conditional store, in a
\* function of the simplest form.
PartitionInputs ==
    UNION {InputsOn(b, {0} \cup Stores(b), UserCfgs(b, 1, {<<"direct">>}),
                    {"empty"}, BOOLEAN, {TRUE}) : b \in BodiesUpTo(MaxBody)}

\* Small loops with every form of preheader and exit, and both flags.
FormInputs ==
    UNION {InputsOn(b, {0} \cup Stores(b), UserCfgs(b, 1, {<<"direct">>}),
                    {"empty", "nonempty", "entry", "multi", "nopreheader",
                     "multiexit"},
                    {FALSE}, BOOLEAN) : b \in BodiesUpTo(SmallBody)}

\* Small loops with every list of outside users of the values used outside.
UserInputs ==
    UNION {InputsOn(b, {0},
                    UserCfgs(b, MaxOut,
                             SeqsUpTo({"phi", "direct"}, MaxUsers) \ {<<>>}),
                    {"empty"}, {FALSE}, {TRUE}) : b \in BodiesUpTo(SmallBody)}

\* The loop { r = B[i]; A[i] = r * 2; B[i + 1] = A[i]; }: the load of B, the
\* multiplication, the store to A, the load of A and the store to B.
ExampleBody ==
    <<[kind |-> "load", op |-> 0], [kind |-> "other", op |-> 1],
      [kind |-> "store", op |-> 2], [kind |-> "load", op |-> 0],
      [kind |-> "store", op |-> 4]>>

ExampleInputs ==
    InputsOn(ExampleBody, {0}, UserCfgs(ExampleBody, 0, {<<"direct">>}),
             {"empty"}, {FALSE}, BOOLEAN)

\* The loop { A[i] = 0; r = B[i]; B[i + 1] = r; if (..) C[i] = 0; }: a store
\* on its own, a load and a store that may depend on each other, and a
\* conditional store, with and without loop-distribute-non-if-convertible.
ConditionalStoreBody ==
    <<[kind |-> "store", op |-> 0], [kind |-> "load", op |-> 0],
      [kind |-> "store", op |-> 2], [kind |-> "store", op |-> 0]>>

ConditionalStoreInputs ==
    InputsOn(ConditionalStoreBody, {Len(ConditionalStoreBody)},
             UserCfgs(ConditionalStoreBody, 0, {<<"direct">>}),
             {"empty"}, BOOLEAN, {TRUE})

Inputs ==
    PartitionInputs \cup FormInputs \cup UserInputs \cup ExampleInputs
    \cup ConditionalStoreInputs

\* ------------------------------------------------- the loop of the input
\* Loop::getBlocks(): the header first, every block after its dominator.
LoopNames(f) == IF f.pred = 0 THEN <<"H">> ELSE <<"H", "T", "L">>

HeaderName == "H"

\* The latch, which is also the one exiting block.
LatchName(f) == IF f.pred = 0 THEN "H" ELSE "L"

Terminator(f, name) ==
    IF name = "H" THEN BrH ELSE IF name = "T" THEN BrT ELSE BrL

Terminators(f) == {Terminator(f, LoopNames(f)[k]) : k \in DOMAIN LoopNames(f)}

LoopInsts(f) == DOMAIN f.body \cup {IV, INC, CMP} \cup Terminators(f)

BlockOf(f, i) ==
    IF i \in DOMAIN f.body
    THEN IF f.pred = 0 \/ i < f.pred THEN "H"
         ELSE IF i = f.pred THEN "T" ELSE "L"
    ELSE IF i \in {INC, CMP} THEN LatchName(f)
    ELSE IF i = BrT THEN "T"
    ELSE IF i = BrL THEN "L"
    ELSE "H"

Kind(f, i) ==
    IF i \in DOMAIN f.body THEN f.body[i].kind
    ELSE IF i = IV THEN "phi"
    ELSE IF i \in {BrH, BrT, BrL} THEN "br"
    ELSE "other"

\* The operands of instruction i that are instructions, in the input.
Ops(f, i) ==
    IF i \in DOMAIN f.body
    THEN (IF f.body[i].kind = "other" THEN {} ELSE {IV, BASE})
         \cup (IF f.body[i].op = 0 THEN {} ELSE {f.body[i].op})
    ELSE IF i = IV THEN {INC}
    ELSE IF i = INC THEN {IV}
    ELSE IF i = CMP THEN {INC}
    ELSE IF i = Terminator(f, LatchName(f)) THEN {CMP}
    ELSE IF i = BrH THEN {IV}
    ELSE {}

\* The instructions of block `name` in order.
BlockSeq(f, name) ==
    LET bodyIn == SelectSeq([k \in 1..Len(f.body) |-> k],
                            LAMBDA k : BlockOf(f, k) = name)
    IN  (IF name = "H" THEN <<IV>> ELSE <<>>) \o bodyIn
        \o (IF name = LatchName(f) THEN <<INC, CMP>> ELSE <<>>)
        \o <<Terminator(f, name)>>

RECURSIVE Concat(_)
Concat(ss) == IF ss = <<>> THEN <<>> ELSE Head(ss) \o Concat(Tail(ss))

\* The loop's instructions, block by block.
ProgramOrder(f) ==
    Concat([k \in DOMAIN LoopNames(f) |-> BlockSeq(f, LoopNames(f)[k])])

\* MemoryDepChecker::getMemoryInstructions(): the loads and stores in
\* program order.
MemoryInstructions(f) ==
    SelectSeq([k \in 1..Len(f.body) |-> k],
              LAMBDA k : f.body[k].kind \in {"load", "store"})

\* Immediate dominator of a loop block inside the loop ("ph": the preheader).
LoopIdom(name) == IF name = "H" THEN "ph" ELSE "H"

\* LoopAccessInfo::blockNeedsPredication: the block does not dominate the
\* latch.
BlockNeedsPredication(f, name) == name = "T"

\* The dependence lists LoopAccessAnalysis may report for m accesses:
\* Source and Destination are indices into MemoryInstructions, the source
\* first in program order.
DepPairs(m) == {pr \in (1..m) \X (1..m) : pr[1] < pr[2]}

DepSets(m) ==
    {{[src |-> pr[1], dst |-> pr[2], bw |-> TRUE] : pr \in B} \cup F :
        B \in {X \in SUBSET DepPairs(m) : Cardinality(X) <= MaxDeps},
        F \in IF m >= 2 THEN {{}, {[src |-> 1, dst |-> 2, bw |-> FALSE]}}
              ELSE {{}}}

\* ------------------------------------------------------------- partitions
\* An InstPartition before cloning: its instruction set and DepCycle.
NewPartition(i, c) == [set |-> {i}, cyc |-> c]

\* Every access of a cycle given a cyclic partition of its own.
addToOwnCyclicPartition(ps, i) == Append(ps, NewPartition(i, TRUE))

addToCyclicPartition(ps, i) ==
    IF ps = <<>> \/ ~ps[Len(ps)].cyc
    THEN Append(ps, NewPartition(i, TRUE))
    ELSE [ps EXCEPT ![Len(ps)].set = @ \cup {i}]

addToNewNonCyclicPartition(ps, i) == Append(ps, NewPartition(i, FALSE))

\* P.moveTo(Other): the new Other (P itself becomes empty).
moveTo(P, Other) == [set |-> Other.set \cup P.set, cyc |-> Other.cyc \/ P.cyc]

RECURSIVE Pow2(_)
Pow2(n) == IF n = 0 THEN 1 ELSE 2 * Pow2(n - 1)

\* A 32-bit word as two 16-bit halves (TLC's own integers are 32 bits
\* wide).
Half == Pow2(IntBits \div 2)

\* `unsigned` arithmetic modulo 2^32: ++, -- and +.
UInc(u) ==
    IF u.lo = Half - 1 THEN [hi |-> (u.hi + 1) % Half, lo |-> 0]
    ELSE [u EXCEPT !.lo = @ + 1]

\* A decrement that stops at 0 instead of wrapping.
UDecSaturating(u) ==
    IF u.lo = 0 /\ u.hi = 0 THEN u
    ELSE IF u.lo = 0 THEN [hi |-> u.hi - 1, lo |-> Half - 1]
    ELSE [u EXCEPT !.lo = @ - 1]

UDec(u) ==
    IF u.lo = 0 THEN [hi |-> (u.hi - 1) % Half, lo |-> Half - 1]
    ELSE [u EXCEPT !.lo = @ - 1]

UAdd(u, v) ==
    [hi |-> (u.hi + v.hi + ((u.lo + v.lo) \div Half)) % Half,
     lo |-> (u.lo + v.lo) % Half]

\* An int as the unsigned of the same bits, and back.
ToUnsigned(x) == [hi |-> (x \div Half) % Half, lo |-> x % Half]
ToInt(u) == (IF u.hi >= Half \div 2 THEN u.hi - Half ELSE u.hi) * Half + u.lo

RECURSIVE Times(_, _, _)
Times(Op(_), n, u) == IF n = 0 THEN u ELSE Times(Op, n - 1, Op(u))

\* MemoryInstructionDependences: the unsigned counter of access k after one
\* ++ per possibly-backward dependence starting there and one -- per one
\* ending there.
NumUnsafeDependencesStartOrEnd(ds, k) ==
    Times(UDec, Cardinality({d \in ds : d.bw /\ d.dst = k}),
          Times(UInc, Cardinality({d \in ds : d.bw /\ d.src = k}),
                ToUnsigned(0)))

\* Only the accesses a dependence starts or ends at.
StartsDependence(active, delta) == delta # ToUnsigned(0)

\* processLoop, lines 949-950: the access goes to the cyclic partition.  The
\* count is unsigned, so `> 0` holds of every value but 0.

SpannedByDependence(active, delta) ==
    active # 0 \/ delta # ToUnsigned(0)

\* processLoop, line 953: `int += unsigned`, computed in unsigned and
\* converted back.
Accumulate(active, delta) == ToInt(UAdd(ToUnsigned(active), delta))

\* The seeding loop of processLoop from access k on: the partitions, and
\* whether the assertion held at every access.
RECURSIVE SeedAccesses(_, _, _, _, _)
SeedAccesses(mem, ds, k, ps, active) ==
    IF k > Len(mem) THEN [parts |-> ps, ok |-> TRUE]
    ELSE LET delta == NumUnsafeDependencesStartOrEnd(ds, k)
             ps2 == IF SpannedByDependence(active, delta)
                    THEN addToCyclicPartition(ps, mem[k])
                    ELSE addToNewNonCyclicPartition(ps, mem[k])
             act2 == Accumulate(active, delta)
             rest == SeedAccesses(mem, ds, k + 1, ps2, act2)
         IN  [parts |-> rest.parts, ok |-> rest.ok /\ act2 >= 0]

\* findDefsUsedOutsideOfLoop: the loop instructions with a user outside the
\* loop, in program order.
findDefsUsedOutsideOfLoop(f) ==
    SelectSeq(ProgramOrder(f), LAMBDA i : f.users[i] # <<>>)

\* Mutant of AddOutside: the partitions of the values used outside are put
\* in front of the partitions of the accesses.
AddOutsideInFront(ps, defs) ==
    [k \in DOMAIN defs |-> NewPartition(defs[k], FALSE)] \o ps

RECURSIVE AddOutside(_, _)
AddOutside(ps, defs) ==
    IF defs = <<>> THEN ps
    ELSE AddOutside(addToNewNonCyclicPartition(ps, Head(defs)), Tail(defs))

\* mergeAdjacentPartitionsIf from position i on; holds[k] is the predicate
\* on the k-th partition (the code tests each partition before anything was
\* moved into it).
RECURSIVE MoveRun(_, _, _, _)
MoveRun(ps, first, i, j) ==
    IF i > j THEN first ELSE MoveRun(ps, moveTo(ps[i], first), i + 1, j)

RECURSIVE RunEnd(_, _)
RunEnd(holds, i) ==
    IF i + 1 <= Len(holds) /\ holds[i + 1] THEN RunEnd(holds, i + 1) ELSE i

RECURSIVE MergeFrom(_, _, _)
MergeFrom(ps, holds, i) ==
    IF i > Len(ps) THEN <<>>
    ELSE IF ~holds[i] THEN <<ps[i]>> \o MergeFrom(ps, holds, i + 1)
    ELSE LET j == RunEnd(holds, i)
         IN  <<MoveRun(ps, ps[i], i + 1, j)>> \o MergeFrom(ps, holds, j + 1)

mergeAdjacentPartitionsIf(ps, holds) == MergeFrom(ps, holds, 1)

\* Leaving adjacent partitions apart.
keepAdjacentNonCyclic(ps) == ps

mergeAdjacentNonCyclic(ps) ==
    mergeAdjacentPartitionsIf(ps, [k \in DOMAIN ps |-> ~ps[k].cyc])

\* Merging on the dependence cycles alone.
OnlyCyclic(f, P) == P.cyc

\* The predicate of mergeNonIfConvertible: cyclic, or with a store and every
\* store in a block that needs predication.
OnlyConditionalStores(f, P) ==
    \/ P.cyc
    \/ LET st == {i \in P.set : Kind(f, i) = "store"}
       IN  st # {} /\ \A i \in st : BlockNeedsPredication(f, BlockOf(f, i))

mergeNonIfConvertible(f, ps) ==
    mergeAdjacentPartitionsIf(ps,
        [k \in DOMAIN ps |-> OnlyConditionalStores(f, ps[k])])

\* InstPartition::populateUsedSet: every terminator, then the closure under
\* operands that are instructions of the loop.
\* Mutant of UseDefClosure: the operands of the members, not theirs in turn.
OperandsOnce(f, S) ==
    S \cup {o \in UNION {Ops(f, i) : i \in S} : o \in LoopInsts(f)}

RECURSIVE UseDefClosure(_, _)
UseDefClosure(f, S) ==
    LET more == {o \in UNION {Ops(f, i) : i \in S} : o \in LoopInsts(f)}
    IN  IF more \subseteq S THEN S ELSE UseDefClosure(f, S \cup more)

populateUsedSet(f, P) ==
    [P EXCEPT !.set = UseDefClosure(f, P.set \cup Terminators(f))]

\* Populating the partitions with a dependence cycle and dropping the rest.
populateCyclicUsedSets(f, ps) ==
    SelectSeq([k \in DOMAIN ps |-> populateUsedSet(f, ps[k])],
              LAMBDA P : P.cyc)

\* Leaving the partitions as they were seeded and merged.
populateNothing(f, ps) == ps

\* InstPartitionContainer::populateUsedSet.
populateUsedSets(f, ps) == [k \in DOMAIN ps |-> populateUsedSet(f, ps[k])]

\* EquivalenceClasses<InstPartition *>: ldr[k] is the leader of partition
\* k's class, 0 while k is not in ToBeMerged.  unionSets(a, b) inserts both
\* and attaches b's class to the leader of a's class.
unionSets(ldr, a, b) ==
    LET l1 == [ldr EXCEPT ![a] = IF @ = 0 THEN a ELSE @,
                          ![b] = IF @ = 0 THEN b ELSE @]
    IN  [k \in DOMAIN l1 |-> IF l1[k] # 0 /\ l1[k] = l1[b] THEN l1[a]
                             ELSE l1[k]]

\* Joining only the two partitions that hold the load.
UnionEnds(ldr, i, j, first) == unionSets(ldr, i, first)

\* The do-while of mergeToAvoidDuplicatedLoads: PartJ from j down to `first`.
RECURSIVE UnionDown(_, _, _, _)
UnionDown(ldr, i, j, first) ==
    LET l2 == unionSets(ldr, i, j)
    IN  IF j = first THEN l2 ELSE UnionDown(l2, i, j - 1, first)

\* The scan of partition i's loads `todo`; l2p is LoadToPartition (0: no
\* entry).
RECURSIVE ScanLoads(_, _, _, _)
ScanLoads(todo, i, l2p, ldr) ==
    IF todo = {} THEN [l2p |-> l2p, ldr |-> ldr]
    ELSE LET ld == CHOOSE x \in todo : \A y \in todo : x <= y
         IN  IF l2p[ld] = 0
             THEN ScanLoads(todo \ {ld}, i, [l2p EXCEPT ![ld] = i], ldr)
             ELSE ScanLoads(todo \ {ld}, i, l2p,
                            UnionDown(ldr, i, i - 1, l2p[ld]))

RECURSIVE ScanPartitions(_, _, _, _, _)
ScanPartitions(f, ps, i, l2p, ldr) ==
    IF i > Len(ps) THEN ldr
    ELSE LET r == ScanLoads({x \in ps[i].set : Kind(f, x) = "load"},
                            i, l2p, ldr)
         IN  ScanPartitions(f, ps, i + 1, r.l2p, r.ldr)

ToBeMerged(f, ps) ==
    ScanPartitions(f, ps, 1, [x \in 1..BrL |-> 0], [k \in DOMAIN ps |-> 0])

\* The partitions left as populated.
KeepDuplicatedLoads(f, ps) == ps

\* mergeToAvoidDuplicatedLoads: every member of a class moves into the class
\* leader, the emptied partitions are erased.
mergeToAvoidDuplicatedLoads(f, ps) ==
    LET ldr == ToBeMerged(f, ps)
        class(k) == {j \in DOMAIN ps : ldr[j] = k}
        merged == [k \in DOMAIN ps |->
                     IF ldr[k] = k
                     THEN [set |-> UNION {ps[j].set : j \in class(k)},
                           cyc |-> \E j \in class(k) : ps[j].cyc]
                     ELSE IF ldr[k] = 0 THEN ps[k]
                     ELSE [set |-> {}, cyc |-> ps[k].cyc]]
    IN  SelectSeq(merged, LAMBDA P : P.set # {})

\* Mutant of setupPartitionIdOnInstructions: PartitionID starts at 1.
setupPartitionIdFromOne(ps) ==
    [i \in UNION {ps[k].set : k \in DOMAIN ps} |->
        LET in == {k \in DOMAIN ps : i \in ps[k].set}
        IN  IF Cardinality(in) = 1 THEN CHOOSE k \in in : TRUE
            ELSE Ambiguous]

\* setupPartitionIdOnInstructions: the position of the one partition holding
\* the instruction, -1 for an instruction in several partitions.
setupPartitionIdOnInstructions(ps) ==
    [i \in UNION {ps[k].set : k \in DOMAIN ps} |->
        LET in == {k \in DOMAIN ps : i \in ps[k].set}
        IN  IF Cardinality(in) = 1 THEN (CHOOSE k \in in : TRUE) - 1
            ELSE Ambiguous]

\* --------------------------------------------------------------- the IR
Blk(c, name) == <<c, name>>
Header(c) == Blk(c, HeaderName)
PH0 == Blk(Orig, "ph0")
BlockP == Blk(Orig, "P")
BlockQ == Blk(Orig, "Q")
BlockD == Blk(Orig, "D")
ExitBB == Blk(Orig, "exit")
Exit2BB == Blk(Orig, "exit2")

Range(sq) == {sq[k] : k \in DOMAIN sq}

InitLoopBlocks(f) == [k \in DOMAIN LoopNames(f) |-> Blk(Orig, LoopNames(f)[k])]

InitBlocks(f) ==
    Range(InitLoopBlocks(f)) \cup {ExitBB}
    \cup (IF f.form = "entry" THEN {PH0}
          ELSE IF f.form = "multi" THEN {BlockD, BlockP, BlockQ, PH0}
          ELSE IF f.form = "nopreheader" THEN {BlockP}
          ELSE {BlockP, PH0})
    \cup (IF f.form = "multiexit" THEN {Exit2BB} ELSE {})

\* The successors of each block's terminator, in operand order; a
\* conditional branch is <<if true, if false>>.
InitCfg(f) ==
    [b \in InitBlocks(f) |->
        IF b = BlockD THEN <<BlockP, BlockQ>>
        ELSE IF b = BlockP
             THEN (IF f.form = "nopreheader" THEN <<Header(Orig), ExitBB>>
                   ELSE <<PH0>>)
        ELSE IF b = BlockQ THEN <<PH0>>
        ELSE IF b = PH0 THEN <<Header(Orig)>>
        ELSE IF b \in {ExitBB, Exit2BB} THEN <<>>
        ELSE IF b[2] = LatchName(f)
             THEN <<Header(Orig), ExitBB>>
                  \o (IF f.form = "multiexit" THEN <<Exit2BB>> ELSE <<>>)
        ELSE IF b[2] = "H" THEN <<Blk(Orig, "T"), Blk(Orig, "L")>>
        ELSE <<Blk(Orig, "L")>>]

\* The dominator tree: each block's immediate dominator.
InitIdom(f) ==
    [b \in InitBlocks(f) |->
        IF b = BlockD THEN NoBlock
        ELSE IF b = BlockP
             THEN (IF f.form = "multi" THEN BlockD ELSE NoBlock)
        ELSE IF b = BlockQ THEN BlockD
        ELSE IF b = PH0
             THEN (IF f.form = "entry" THEN NoBlock
                   ELSE IF f.form = "multi" THEN BlockD ELSE BlockP)
        ELSE IF b = ExitBB
             THEN (IF f.form = "nopreheader" THEN BlockP
                   ELSE Blk(Orig, LatchName(f)))
        ELSE IF b = Exit2BB THEN Blk(Orig, LatchName(f))
        ELSE IF b = Header(Orig)
             THEN (IF f.form = "nopreheader" THEN BlockP ELSE PH0)
        ELSE Header(Orig)]

\* The instructions of the loop copies: each one's operands.
InitInsts(f) ==
    [r \in {<<Orig, i>> : i \in LoopInsts(f)} |->
        {<<Orig, o>> : o \in Ops(f, r[2])}]

\* The instructions other than the terminator of the blocks before the loop.
InitExtra(f) ==
    [b \in InitBlocks(f) |->
        IF b = PH0 /\ f.form \in {"nonempty", "entry"} THEN {"pre"} ELSE {}]

\* The PHIs at the start of the exit block, in order.
InitExitPhis(f) ==
    LET phisOf(i) ==
            LET js == SelectSeq([j \in DOMAIN f.users[i] |-> j],
                                LAMBDA j : f.users[i][j] = "phi")
            IN  [k \in DOMAIN js |->
                    [val |-> i, user |-> js[k],
                     inc |-> <<[v |-> <<Orig, i>>,
                                b |-> Blk(Orig, LatchName(f))]>>]]
        defs == findDefsUsedOutsideOfLoop(f)
    IN  Concat([k \in DOMAIN defs |-> phisOf(defs[k])])

\* What each user outside the loop reads: the value itself ("val"), the exit
\* PHI made for it ("phi") or undef.
InitOutUses(f) == [i \in 1..BrL |-> [j \in DOMAIN f.users[i] |-> "val"]]

\* The whole IR of the function as the pass finds it.
InitIR(f) ==
    [cfg |-> InitCfg(f), idom |-> InitIdom(f),
     loops |-> [c \in {Orig} |-> InitLoopBlocks(f)],
     insts |-> InitInsts(f), meta |-> {}, extra |-> InitExtra(f),
     exitPhis |-> InitExitPhis(f), outUses |-> InitOutUses(f)]

\* ------------------------------------------------------------ CFG queries
PredEdges(g, b) ==
    {<<x, k>> \in (DOMAIN g) \X (1..3) : k \in DOMAIN g[x] /\ g[x][k] = b}

\* BasicBlock::getSinglePredecessor: the predecessor when there is exactly
\* one incoming edge.
getSinglePredecessor(g, b) ==
    IF Cardinality(PredEdges(g, b)) = 1
    THEN (CHOOSE e \in PredEdges(g, b) : TRUE)[1] ELSE NoBlock

\* Loop::getLoopPreheader: the one predecessor of the header outside the
\* loop, when the header is its only successor.
getLoopPreheader(g, lp) ==
    LET out == {e[1] : e \in {x \in PredEdges(g, lp[1]) : x[1] \notin Range(lp)}}
    IN  IF Cardinality(out) # 1 THEN NoBlock
        ELSE LET o == CHOOSE x \in out : TRUE
             IN  IF Len(g[o]) = 1 THEN o ELSE NoBlock

ExitBlocks(g, lp) ==
    {s \in UNION {Range(g[b]) : b \in Range(lp)} : s \notin Range(lp)}

\* Loop::getExitBlock: the exit block when there is one.
getExitBlock(g, lp) ==
    IF Cardinality(ExitBlocks(g, lp)) = 1
    THEN CHOOSE s \in ExitBlocks(g, lp) : TRUE ELSE NoBlock

\* Loop::getExitingBlock: the loop block with a successor outside the loop,
\* when there is one.
getExitingBlock(g, lp) ==
    LET ex == {b \in Range(lp) : \E s \in Range(g[b]) : s \notin Range(lp)}
    IN  IF Cardinality(ex) = 1 THEN CHOOSE b \in ex : TRUE ELSE NoBlock

\* Adds or overwrites the entries of m in function g.
Override(g, m) ==
    [x \in DOMAIN g \cup DOMAIN m |-> IF x \in DOMAIN m THEN m[x] ELSE g[x]]

\* Mutant of SplitBlock: the block is left as it is.
LeaveUnsplit(ir, Old, New) == ir

\* SplitBlock(Old, Old->getTerminator(), DT, LI): New takes the terminator,
\* Old branches to New, the dominator tree children of Old become New's.
SplitBlock(ir, Old, New) ==
    [ir EXCEPT
        !.cfg = Override(ir.cfg, (Old :> <<New>>) @@ (New :> ir.cfg[Old])),
        !.idom = Override([b \in DOMAIN ir.idom |->
                              IF ir.idom[b] = Old THEN New ELSE ir.idom[b]],
                          New :> Old),
        !.extra = Override(ir.extra, New :> {})]

\* ---------------------------------------------------------------- cloning
MapTo(m, x) == IF x \in DOMAIN m THEN m[x] ELSE x

\* The partition at position p (from 0) is cloned into copy p + 1; the
\* partition that keeps the original loop has no clone.
ClonedLoop(ir, p) == IF (p + 1) \in DOMAIN ir.loops THEN p + 1 ELSE Orig

\* InstPartition::getDistributedLoop, as LoopInfo's block list.
getDistributedLoop(ir, p) == ir.loops[ClonedLoop(ir, p)]

\* InstPartition::getNewInst.
getNewInst(ir, p, i) == <<ClonedLoop(ir, p), i>>

\* cloneLoopWithPreheader(Before, LoopDomBB, OrigLoop, VMap, ...): copy c of
\* the preheader and of every block of the original loop, not yet remapped.
\* The result holds the new IR and VMap (blocks and values).
cloneLoopWithPreheader(ir, c, LoopDomBB) ==
    LET lp == ir.loops[Orig]
        OrigPH == getLoopPreheader(ir.cfg, lp)
        NewPH == Blk(c, OrigPH[2])
        old == {OrigPH} \cup Range(lp)
        vblocks == [b \in old |-> Blk(c, b[2])]
        origRefs == {r \in DOMAIN ir.insts : r[1] = Orig}
        vvals == [r \in origRefs |-> <<c, r[2]>>]
        \* VMap[IDomBB] exists only for the blocks cloned before BB.
        idomOf(k) ==
            IF ir.idom[lp[k]] \in {OrigPH} \cup {lp[j] : j \in 1..(k - 1)}
            THEN vblocks[ir.idom[lp[k]]] ELSE NoBlock
    IN  [ir |->
           [ir EXCEPT
              !.cfg = Override(ir.cfg,
                          [nb \in Range(vblocks) |->
                              ir.cfg[CHOOSE b \in old : vblocks[b] = nb]]),
              !.idom = Override(ir.idom,
                          [nb \in Range(vblocks) |->
                              IF nb = NewPH THEN LoopDomBB
                              ELSE idomOf(CHOOSE k \in DOMAIN lp :
                                              vblocks[lp[k]] = nb)]),
              !.loops = Override(ir.loops,
                          c :> [k \in DOMAIN lp |-> vblocks[lp[k]]]),
              !.insts = Override(ir.insts,
                          [nr \in Range(vvals) |-> ir.insts[<<Orig, nr[2]>>]]),
              !.meta = ir.meta \cup
                          {[i |-> vvals[m.i], md |-> m.md] :
                              m \in {x \in ir.meta : x.i \in origRefs}},
              !.extra = Override(ir.extra, NewPH :> ir.extra[OrigPH])],
         vblocks |-> vblocks, vvals |-> vvals, NewPH |-> NewPH]

\* remapInstructionsInLoop(Blocks, VMap) on copy c: every operand and every
\* branch target with an entry in VMap is replaced, the others are left
\* (RF_IgnoreMissingEntries).
remapInstructionsInLoop(ir, c, NewPH, vblocks, vvals) ==
    [ir EXCEPT
        !.cfg = [b \in DOMAIN ir.cfg |->
                    IF b = NewPH \/ b \in Range(ir.loops[c])
                    THEN [k \in DOMAIN ir.cfg[b] |-> MapTo(vblocks, ir.cfg[b][k])]
                    ELSE ir.cfg[b]],
        !.insts = [r \in DOMAIN ir.insts |->
                    IF r[1] = c THEN {MapTo(vvals, o) : o \in ir.insts[r]}
                    ELSE ir.insts[r]]]

\* ------------------------------------------------------- RuntimeCheckEmitter
MemCheckCreated == Blk(Orig, "ph2")

\* The branch with the original loop as its first successor.
DistributedFirst(NonDistPH, OrigPH) == <<OrigPH, NonDistPH>>

\* BranchInst::Create(IfTrue, IfFalse, Cond, InsertBefore), lines 754-755, on
\* the preheaders of the fallback loop and of the original loop: the
\* successors of the new terminator, <<if true, if false>>.

MemCheckBranch(NonDistPH, OrigPH) == <<NonDistPH, OrigPH>>

\* RuntimeCheckEmitter::versionLoop.
versionLoop(ir) ==
    LET MemCheckBB == getLoopPreheader(ir.cfg, ir.loops[Orig])
        ir1 == [ir EXCEPT !.extra[MemCheckBB] = @ \cup {"memcheck"}]
        ir2 == SplitBlock(ir1, MemCheckBB, MemCheckCreated)
        cl == cloneLoopWithPreheader(ir2, NonDist, MemCheckBB)
        ir3 == remapInstructionsInLoop(cl.ir, NonDist, cl.NewPH,
                                       cl.vblocks, cl.vvals)
        ir4 == [ir3 EXCEPT !.cfg[MemCheckBB] =
                   MemCheckBranch(getLoopPreheader(ir3.cfg, ir3.loops[NonDist]),
                                  getLoopPreheader(ir3.cfg, ir3.loops[Orig]))]
    IN  [ir4 EXCEPT !.idom[getExitBlock(ir4.cfg, ir4.loops[Orig])] = MemCheckBB]

\* The first PHI of the exit block whose first incoming value is v, 0 when
\* there is none.
RECURSIVE FindPhi(_, _, _)
FindPhi(phis, v, k) ==
    IF k > Len(phis) THEN 0
    ELSE IF phis[k].inc[1].v = v THEN k
    ELSE FindPhi(phis, v, k + 1)

\* The j-th user of a value is replaced when it is one of the first n users
\* that read the value.
FirstReaders(uses, n) ==
    {j \in DOMAIN uses :
        uses[j] = "val"
        /\ Cardinality({x \in 1..j : uses[x] = "val"}) <= n}

\* RuntimeCheckEmitter::addPHINodes for the values `defs`.  The loop over
\* Inst->users() rewrites the user it stands on, which takes that use out of
\* the list being walked: with `stop` the walk ends there, without it the
\* walk reaches every user.  The result holds the IR and whether the
\* assertion held for every PHI looked at.
RECURSIVE addPHINodes(_, _, _)
addPHINodes(ir, defs, stop) ==
    IF defs = <<>> THEN [ir |-> ir, ok |-> TRUE]
    ELSE LET V == Head(defs)
             Inst == <<Orig, V>>
             in1 == [v |-> Inst,
                     b |-> getExitingBlock(ir.cfg, ir.loops[Orig])]
             in2 == [v |-> <<NonDist, V>>,
                     b |-> getExitingBlock(ir.cfg, ir.loops[NonDist])]
             k == FindPhi(ir.exitPhis, Inst, 1)
             looked == IF k = 0 THEN DOMAIN ir.exitPhis ELSE 1..k
             ok == \A x \in looked : Len(ir.exitPhis[x].inc) = 1
             n == IF stop THEN 1 ELSE Len(ir.outUses[V])
             hit == FirstReaders(ir.outUses[V], n)
             ir2 == IF k # 0
                    THEN [ir EXCEPT !.exitPhis[k].inc = Append(@, in2)]
                    ELSE [ir EXCEPT
                            !.exitPhis =
                                <<[val |-> V, user |-> 0, inc |-> <<in1, in2>>]>>
                                \o @,
                            !.outUses[V] =
                                [j \in DOMAIN @ |->
                                    IF j \in hit THEN "phi" ELSE @[j]]]
             rest == addPHINodes(ir2, Tail(defs), stop)
         IN  [ir |-> rest.ir, ok |-> ok /\ rest.ok]

\* ---------------------------------------------------- InstPartitionContainer
\* The metadata as it would be had the fallback been cloned after it was set.
annotateBeforeVersioning(f, ir, p, P, insts) ==
    [ir EXCEPT !.meta = @ \cup
        {[i |-> <<c, o>>, md |-> m] :
            c \in {ClonedLoop(ir, p)} \cup (DOMAIN ir.loops \cap {NonDist}),
            o \in {x \in P.set :
                     \/ Kind(f, x) = "load" /\ x \in insts
                     \/ Kind(f, x) = "store" /\ x \notin insts},
            m \in {"noalias", "alias.scope"}}]

\* InstPartition::annotateNoAlias on the partition at position p.
annotateNoAliasOne(f, ir, p, P, insts) ==
    [ir EXCEPT !.meta = @ \cup
        {[i |-> getNewInst(ir, p, o), md |-> m] :
            o \in {x \in P.set :
                     \/ Kind(f, x) = "load" /\ x \in insts
                     \/ Kind(f, x) = "store" /\ x \notin insts},
            m \in {"noalias", "alias.scope"}}]

\* Mutant of annotateNoAlias: hasDepCycle is not asked.
annotateEveryPartition(f, ir, ps, k, insts) ==
    [ir EXCEPT !.meta = @ \cup
        {[i |-> <<Orig, o>>, md |-> m] :
            o \in {x \in UNION {ps[j].set : j \in DOMAIN ps} :
                     \/ Kind(f, x) = "load" /\ x \in insts
                     \/ Kind(f, x) = "store" /\ x \notin insts},
            m \in {"noalias", "alias.scope"}}]

\* InstPartitionContainer::annotateNoAlias: the cyclic partitions only.
RECURSIVE annotateNoAlias(_, _, _, _, _)
annotateNoAlias(f, ir, ps, k, insts) ==
    IF k > Len(ps) THEN ir
    ELSE annotateNoAlias(f,
             IF ps[k].cyc THEN annotateNoAliasOne(f, ir, k - 1, ps[k], insts)
             ELSE ir,
             ps, k + 1, insts)

\* The cloning loop of cloneLoops, lines 499-510, for the partitions at
\* positions p down to 0.
RECURSIVE CloneDown(_, _, _, _, _)
CloneDown(ir, p, Pred, ExitBlock, TopPH) ==
    IF p < 0 THEN [ir |-> ir, TopPH |-> TopPH]
    ELSE LET cl == cloneLoopWithPreheader(ir, p + 1, Pred)
             ir2 == remapInstructionsInLoop(cl.ir, p + 1, cl.NewPH,
                        Override(cl.vblocks, ExitBlock :> TopPH), cl.vvals)
         IN  CloneDown(ir2, p - 1, Pred, ExitBlock,
                       getLoopPreheader(ir2.cfg, ir2.loops[p + 1]))

\* The dominators as cloneLoopWithPreheader set them.
KeepCloneDominators(ir, p, n) == ir

\* The dominator update of cloneLoops, lines 516-522, from position p on.
RECURSIVE ChainDominators(_, _, _)
ChainDominators(ir, p, n) ==
    IF p + 1 >= n THEN ir
    ELSE ChainDominators(
             [ir EXCEPT
                !.idom[getLoopPreheader(ir.cfg, getDistributedLoop(ir, p + 1))]
                    = getExitingBlock(ir.cfg, getDistributedLoop(ir, p))],
             p + 1, n)

\* The clones made, the edge into the original preheader left in place.
cloneLoopsUnlinked(ir, n) ==
    LET OrigPH == getLoopPreheader(ir.cfg, ir.loops[Orig])
        Pred == getSinglePredecessor(ir.cfg, OrigPH)
        ExitBlock == getExitBlock(ir.cfg, ir.loops[Orig])
    IN  ChainDominators(CloneDown(ir, n - 2, Pred, ExitBlock, OrigPH).ir, 0, n)

\* InstPartitionContainer::cloneLoops for n partitions, after its assertions.
cloneLoops(ir, n) ==
    LET OrigPH == getLoopPreheader(ir.cfg, ir.loops[Orig])
        Pred == getSinglePredecessor(ir.cfg, OrigPH)
        ExitBlock == getExitBlock(ir.cfg, ir.loops[Orig])
        r == CloneDown(ir, n - 2, Pred, ExitBlock, OrigPH)
        ir2 == [r.ir EXCEPT !.cfg[Pred] =
                   [k \in DOMAIN @ |-> IF @[k] = OrigPH THEN r.TopPH ELSE @[k]]]
    IN  ChainDominators(ir2, 0, n)

\* Mutant of Unused: the instructions are looked up in the original loop
\* instead of through getNewInst.
UnusedInOriginalLoop(ir, p, P) ==
    {r \in DOMAIN ir.insts : r[1] = Orig /\ r[2] \notin P.set}

\* The instructions InstPartition::removeUnusedInsts deletes for the
\* partition at position p.
Unused(ir, p, P) ==
    {getNewInst(ir, p, r[2]) :
        r \in {x \in DOMAIN ir.insts : x[1] = Orig /\ x[2] \notin P.set}}

\* Erasing the instructions `del`, every use of one replaced by undef.
EraseAll(f, ir, del) ==
    [ir EXCEPT
        !.insts = [r \in DOMAIN ir.insts \ del |->
                     {IF o \in del THEN Undef ELSE o : o \in ir.insts[r]}],
        !.meta = {m \in @ : m.i \notin del},
        !.cfg = [b \in DOMAIN @ |->
                    IF \E r \in del : Kind(f, r[2]) = "br"
                                      /\ b = Blk(r[1], BlockOf(f, r[2]))
                    THEN <<>> ELSE @[b]],
        !.exitPhis = [k \in DOMAIN @ |->
                        [@[k] EXCEPT !.inc =
                            [x \in DOMAIN @ |->
                                IF @[x].v \in del
                                THEN [@[x] EXCEPT !.v = Undef] ELSE @[x]]]],
        !.outUses = [i \in DOMAIN @ |->
                        [j \in DOMAIN @[i] |->
                            IF @[i][j] = "val" /\ <<Orig, i>> \in del
                            THEN "undef" ELSE @[i][j]]]]

\* InstPartitionContainer::removeUnusedInsts from position p on.  The result
\* holds the IR and whether no branch was among the deleted instructions.
RECURSIVE removeUnusedInsts(_, _, _, _)
removeUnusedInsts(f, ir, ps, p) ==
    IF p >= Len(ps) THEN [ir |-> ir, ok |-> TRUE]
    ELSE LET del == Unused(ir, p, ps[p + 1])
             rest == removeUnusedInsts(f, EraseAll(f, ir, del), ps, p + 1)
         IN  [ir |-> rest.ir,
              ok |-> rest.ok /\ \A r \in del : Kind(f, r[2]) # "br"]

\* What LoopAccessInfo can report as RtPtrCheck->Pointers together with
\* getInstructionsForAccess: the memory instructions grouped by the pointer
\* they access, loads and stores apart (IsWritePtr), each group in program
\* order and the groups in the order of their first access.  g maps an
\* instruction to the first access of its pointer.
PointerSets(f) ==
    LET M == {MemoryInstructions(f)[k] : k \in DOMAIN MemoryInstructions(f)}
    IN  {[q \in DOMAIN SelectSeq(MemoryInstructions(f), LAMBDA i : g[i] = i) |->
            SelectSeq(MemoryInstructions(f),
                      LAMBDA i : g[i] = SelectSeq(MemoryInstructions(f),
                                                  LAMBDA j : g[j] = j)[q])] :
            g \in {h \in [M -> M] :
                      \A i \in M : /\ h[i] <= i
                                   /\ h[h[i]] = h[i]
                                   /\ Kind(f, h[i]) = Kind(f, i)}}

\* LAI.getInstructionsForAccess(Ptr, IsWritePtr[I]) for the I-th pointer.
getInstructionsForAccess(ptrs, q) == ptrs[q]

\* Mutant of PartitionOfPointer: the entry of the last access alone.
PartitionOfLastAccess(ids, accs, part) ==
    IF accs = <<>> THEN part ELSE ids[accs[Len(accs)]]

RECURSIVE PartitionOfPointer(_, _, _)
PartitionOfPointer(ids, accs, part) ==
    IF accs = <<>> THEN part
    ELSE LET this == ids[Head(accs)]
         IN  IF part = Unset THEN PartitionOfPointer(ids, Tail(accs), this)
             ELSE IF part = Ambiguous THEN part
             ELSE IF part # this
                  THEN PartitionOfPointer(ids, Tail(accs), Ambiguous)
             ELSE PartitionOfPointer(ids, Tail(accs), part)

computePartitionSetForPointers(ptrs, ids) ==
    [q \in DOMAIN ptrs |->
        PartitionOfPointer(ids, getInstructionsForAccess(ptrs, q), Unset)]

\* processLoop, lines 1005-1021: the loads and stores of the possibly-backward
\* dependences that lead from a load to a store.
StoreToLoadForwarding(f, ds) ==
    IF ~f.addMemchecks THEN {}
    ELSE UNION {{MemoryInstructions(f)[d.src], MemoryInstructions(f)[d.dst]} :
                    d \in {x \in ds :
                             /\ x.bw
                             /\ Kind(f, MemoryInstructions(f)[x.src]) = "load"
                             /\ Kind(f, MemoryInstructions(f)[x.dst]) = "store"}}

\* ------------------------------------------------------------ the state
\* fn      the input (never changes)
\* pc      where processLoop stands; "done": returned, "crashed": stopped
\*         by a failed assertion
\* result  what processLoop returned
\* lai     what LoopAccessAnalysis answered
\* deps    *InterestingDependences
\* parts   InstPartitionContainer::PartitionContainer
\* defsOut DefsUsedOutside
\* instToPart  InstToPartitionId
\* Pointers    RtPtrCheck->Pointers, each with its access instructions
\* ptrToPart   RuntimeCheckEmitter::PtrToPartition
\* fwd     InstsInStoreToLoadForwarding
\* needsChecks what needsRuntimeChecks() returned
\* ir      the function: cfg, idom (DominatorTree), loops (LoopInfo), insts,
\*         meta (the alias metadata), extra, exitPhis, outUses
\* clPred  Pred of cloneLoops
\* NumLoopsDistributed  the statistic
VARIABLES fn, pc, result, lai, deps, parts, defsOut, instToPart, Pointers,
          ptrToPart,
          fwd, needsChecks, ir, clPred, NumLoopsDistributed

\* runOnFunction: the loops of the function as LoopInfo lists them when the
\* pass starts (func), the loops LoopInfo holds (LI, as <<loop, copy>>), the
\* worklist, the loop being processed, Changed, the calls of processLoop
\* made so far with their results, and the position and result of
\* runOnFunction itself.
VARIABLES func, LI, Worklist, current, Changed, visited, rpc, runResult

run == <<func, LI, Worklist, current, Changed, visited, rpc, runResult>>

\* TargetLibraryInfoImpl: the packed availability table and the custom
\* names, with the last call made on the object.
VARIABLES AvailableArray, CustomNames, tliCall

tli == <<AvailableArray, CustomNames, tliCall>>

\* dsymutil's BinaryHolder: the files on disk, the holder's members, and the
\* last request made of it.
VARIABLES files, CurrentMemoryBuffer, CurrentArchives, CurrentObjectFiles,
          CurrentFatBinary, bhCall

holder == <<files, CurrentMemoryBuffer, CurrentArchives, CurrentObjectFiles,
            CurrentFatBinary, bhCall>>

\* One call of InstPartition::populateUsedSet, statement by statement: the
\* partition's Set, the Worklist, the instructions the partition was seeded
\* with, and the position in the function.
VARIABLES used

tools == <<tli, holder, used>>

\* What lies outside one call of processLoop.
outside == <<run, tools>>

loopDistribute ==
    <<fn, pc, result, lai, deps, parts, defsOut, instToPart, Pointers,
      ptrToPart,
      fwd, needsChecks, ir, clPred, NumLoopsDistributed>>

vars == <<loopDistribute, outside>>

analysis == <<lai, deps>>
partitioning == <<parts, defsOut>>
codegen == <<instToPart, Pointers, ptrToPart, fwd, needsChecks, clPred>>

\* ------------------------------------------------------ TargetLibraryInfo
NumLibFuncs == 6
MaxCalls == 3

StandardName == 3
CustomName == 1
Unavailable == 0

LibFuncs == 0..(NumLibFuncs - 1)

NamePool == <<"memcpy", "memset", "strlen", "write", "fputs", "free",
              "malloc", "puts">>

StandardNames == [F \in LibFuncs |-> NamePool[F + 1]]

\* The names a caller passes for F: its standard name and two others.
NameArgs(F) == {StandardNames[F], "alt1", "alt2"}

RECURSIVE BitAnd(_, _)
BitAnd(a, b) ==
    IF a = 0 \/ b = 0 THEN 0
    ELSE (a % 2) * (b % 2) + 2 * BitAnd(a \div 2, b \div 2)

RECURSIVE BitOr(_, _)
BitOr(a, b) ==
    IF a = 0 THEN b
    ELSE IF b = 0 THEN a
    ELSE (IF a % 2 = 1 \/ b % 2 = 1 THEN 1 ELSE 0)
         + 2 * BitOr(a \div 2, b \div 2)

\* The low byte of ~x, which is all that an unsigned char keeps of it.
BitNot(x) == 255 - (x % 256)

Shl(x, k) == x * Pow2(k)
Shr(x, k) == x \div Pow2(k)

\* The availability table, four functions to a byte.
Tables == [0..((NumLibFuncs + 3) \div 4 - 1) -> 0..255]

setStateKeepingBits(A, F, State) ==
    [A EXCEPT ![F \div 4] = BitOr(A[F \div 4], Shl(State, 2 * BitAnd(F, 3))) % 256]

setState(A, F, State) ==
    LET cleared == BitAnd(A[F \div 4], BitNot(Shl(3, 2 * BitAnd(F, 3))))
    IN  [A EXCEPT ![F \div 4] =
             BitOr(cleared, Shl(State, 2 * BitAnd(F, 3))) % 256]

getState(A, F) == BitAnd(Shr(A[F \div 4], 2 * BitAnd(F, 3)), 3)

has(A, F) == getState(A, F) # Unavailable

\* CustomNames[F] = Name
InsertName(C, F, Name) ==
    [G \in (DOMAIN C) \cup {F} |-> IF G = F THEN Name ELSE C[G]]

\* What getName(F) can return; find(F) on a function without an entry
\* yields the end iterator, whose dereference is undefined.
getName(A, C, F) ==
    IF getState(A, F) = Unavailable THEN {""}
    ELSE IF getState(A, F) = StandardName THEN {StandardNames[F]}
    ELSE IF F \in DOMAIN C THEN {C[F]}
    ELSE {"", "alt1", "alt2"} \cup {StandardNames[G] : G \in LibFuncs}

NoCall == [op |-> "none", F |-> 0, Name |-> "", was |-> {""}, n |-> 0]

\* The table as constructed: every function under its standard name, or
\* none available.
TLIConstructed ==
    /\ AvailableArray \in {[i \in DOMAIN A |-> 255] : A \in Tables}
                          \cup {[i \in DOMAIN A |-> 0] : A \in Tables}
    /\ CustomNames = <<>>
    /\ tliCall = NoCall

TLIIdle ==
    /\ AvailableArray = [i \in 0..((NumLibFuncs + 3) \div 4 - 1) |-> 255]
    /\ CustomNames = <<>>
    /\ tliCall = NoCall

\* ----------------------------------------------------------- BinaryHolder
MaxMembers == 2
MaxSlices == 2
MaxOpens == 2

MinTime == 0

\* File names are sequences of characters.
ArchiveNames == {<<"a">>, <<"b">>}
MemberNames == {<<"m">>, <<"n">>}

Missing == [kind |-> "missing"]
ObjectFile == [kind |-> "object"]
Archive(members) == [kind |-> "archive", members |-> members]
FatBinary(slices) == [kind |-> "fat", slices |-> slices]

\* An archive member: its name, its last-modified time, and whether
\* getMemoryBufferRef() succeeds on it.
Children ==
    {[name |-> <<"m">>, mtime |-> 1, readable |-> TRUE],
     [name |-> <<"n">>, mtime |-> 1, readable |-> TRUE],
     [name |-> <<"m">>, mtime |-> 1, readable |-> FALSE]}

Archives == {Archive(ms) : ms \in SeqsUpTo(Children, MaxMembers)}

SliceContents ==
    {ObjectFile} \cup {Archive(<<c>>) : c \in {d \in Children : d.readable}}

FatBinaries ==
    {FatBinary(sl) : sl \in SeqsUpTo(SliceContents, MaxSlices) \ {<<>>}}

\* The disk: what each of the two paths holds. Paths with a parenthesis in
\* them name no file.
Disks ==
    {[n \in ArchiveNames |-> IF n = <<"a">> THEN ca ELSE cb] :
        ca \in {Missing, ObjectFile} \cup Archives \cup FatBinaries,
        cb \in {ObjectFile, Archive(<<[name |-> <<"m">>, mtime |-> 1,
                                               readable |-> TRUE]>>)}}

\* The file names asked for: a path, a path with a member in parentheses,
\* and the same with the closing parenthesis missing or replaced.
Requests ==
    ArchiveNames
    \cup {<<"a", ")">>, <<"a", "(">>, <<"b", "(", "m", ")">>}
    \cup {<<"a", "(">> \o m \o <<")">> : m \in MemberNames}
    \cup {<<"a", "(", "m">> \o t : t \in {<<>>, <<"x">>}}

\* Whether assertions are compiled in shows on these requests only.
Builds(Filename) == IF Len(Filename) = 2 THEN BOOLEAN ELSE {TRUE}

Timestamps == {MinTime, 1, 2}

\* StringRef
startswith(s, p) == Len(s) >= Len(p) /\ SubSeq(s, 1, Len(p)) = p
endswith(s, c) == Len(s) >= 1 /\ s[Len(s)] = c
substr(s, start) == SubSeq(s, start + 1, Len(s))
drop_back(s) == SubSeq(s, 1, Len(s) - 1)
\* substr(0, find(c)): the whole string when c does not occur.
UpToFirst(s, c) ==
    IF \E i \in 1..Len(s) : s[i] = c
    THEN SubSeq(s, 1, (CHOOSE i \in 1..Len(s) :
                          s[i] = c /\ \A j \in 1..(i - 1) : s[j] # c) - 1)
    ELSE s

NoBuffer == [id |-> 0, name |-> <<>>, content |-> Missing]
NoFat == [buf |-> 0]

\* MemoryBuffer::getFileOrSTDIN
getFileOrSTDIN(disk, path) ==
    IF path \in DOMAIN disk /\ disk[path] # Missing
    THEN [ok |-> TRUE, content |-> disk[path]]
    ELSE [ok |-> FALSE, content |-> Missing]

\* A MemoryBufferRef: the backing buffer it points into, the slice of a fat
\* binary (0 for the whole buffer), the archive member (0 for none), its
\* identifier and what it holds.
BufferRef(id, slice, member, name, content) ==
    [buf |-> id, slice |-> slice, member |-> member, name |-> name,
     content |-> content]

getMemBufferRef(B) == BufferRef(B.id, 0, 0, B.name, B.content)

getMachOFatMemoryBuffers(Filename, B) ==
    [k \in 1..Len(B.content.slices) |->
        BufferRef(B.id, k, 0, Filename, B.content.slices[k])]

\* The members of one cached archive, as buffers, in order.
ChildrenOf(A) ==
    [j \in 1..Len(A.content.members) |->
        [ref |-> BufferRef(A.buf, A.slice, j, A.content.members[j].name,
                           ObjectFile),
         child |-> A.content.members[j]]]

PassesTimestamp(Timestamp, child) ==
    ~(Timestamp # MinTime /\ Timestamp # child.mtime)

\* GetArchiveMemberBuffers. drop_back() of an empty string fails an
\* assertion; without assertions it leaves the string empty.
GetArchiveMemberBuffersOn(archs, Filename, Timestamp, asserts) ==
    IF archs = <<>> THEN [status |-> "error", buffers |-> <<>>]
    ELSE
    LET CurArchiveName == archs[1].name IN
    IF ~startswith(Filename, CurArchiveName \o <<"(">>)
    THEN [status |-> "error", buffers |-> <<>>]
    ELSE
    LET rest == substr(Filename, Len(CurArchiveName) + 1)
        Member == drop_back(rest)
        found == SelectSeq(Concat([k \in 1..Len(archs) |-> ChildrenOf(archs[k])]),
                           LAMBDA c : c.child.name = Member
                                      /\ PassesTimestamp(Timestamp, c.child))
    IN  IF rest = <<>> /\ asserts
        THEN [status |-> "crashed", buffers |-> <<>>]
        ELSE IF \E k \in 1..Len(found) : ~found[k].child.readable
        THEN [status |-> "error", buffers |-> <<>>]
        ELSE IF found = <<>> THEN [status |-> "error", buffers |-> <<>>]
        ELSE [status |-> "ok", buffers |-> [k \in 1..Len(found) |-> found[k].ref]]

\* The holder's members as one record.
Holder(B, archs, objs, fat, opens) ==
    [buf |-> B, archives |-> archs, objects |-> objs, fat |-> fat,
     opens |-> opens]

KeepCaches(h, name, content) ==
    [h EXCEPT !.buf = [id |-> h.opens + 1, name |-> name, content |-> content],
              !.opens = h.opens + 1]

changeBackingMemoryBuffer(h, name, content) ==
    Holder([id |-> h.opens + 1, name |-> name, content |-> content],
           <<>>, <<>>, NoFat, h.opens + 1)

\* The leading slices that Archive::create accepts.
RECURSIVE ArchivesOf(_)
ArchivesOf(refs) ==
    IF refs = <<>> \/ Head(refs).content.kind # "archive" THEN <<>>
    ELSE <<Head(refs)>> \o ArchivesOf(Tail(refs))

MapArchiveAndGetMemberBuffers(disk, h, Filename, Timestamp, asserts) ==
    LET ArchiveFilename == UpToFirst(Filename, "(")
        ErrOrBuff == getFileOrSTDIN(disk, ArchiveFilename)
    IN  IF ~ErrOrBuff.ok
        THEN [h |-> h, status |-> "error", buffers |-> <<>>]
        ELSE
        LET h1 == changeBackingMemoryBuffer(h, ArchiveFilename, ErrOrBuff.content)
            isFat == h1.buf.content.kind = "fat"
            ArchiveBuffers ==
                IF isFat THEN getMachOFatMemoryBuffers(ArchiveFilename, h1.buf)
                ELSE <<getMemBufferRef(h1.buf)>>
            created == ArchivesOf(ArchiveBuffers)
            h2 == [h1 EXCEPT !.fat = IF isFat THEN [buf |-> h1.buf.id] ELSE NoFat,
                             !.archives = created]
            r == GetArchiveMemberBuffersOn(created, Filename, Timestamp, asserts)
        IN  IF Len(created) < Len(ArchiveBuffers)
            THEN [h |-> h2, status |-> "error", buffers |-> <<>>]
            ELSE [h |-> h2, status |-> r.status, buffers |-> r.buffers]

GetMemoryBuffersForFileOn(disk, h, Filename, Timestamp, asserts) ==
    LET fast == GetArchiveMemberBuffersOn(h.archives, Filename, Timestamp, asserts)
        slow == IF endswith(Filename, ")")
                THEN MapArchiveAndGetMemberBuffers(disk, h, Filename, Timestamp,
                                                   asserts)
                ELSE [h |-> h, status |-> "error", buffers |-> <<>>]
        ErrOrFile == getFileOrSTDIN(disk, Filename)
        h3 == changeBackingMemoryBuffer(slow.h, Filename, ErrOrFile.content)
    IN  IF fast.status # "error"
        THEN [h |-> h, status |-> fast.status, buffers |-> fast.buffers]
        ELSE IF slow.status # "error" THEN slow
        ELSE IF ~ErrOrFile.ok
        THEN [h |-> slow.h, status |-> "error", buffers |-> <<>>]
        ELSE IF h3.buf.content.kind # "fat"
        THEN [h |-> h3, status |-> "ok", buffers |-> <<getMemBufferRef(h3.buf)>>]
        ELSE [h |-> [h3 EXCEPT !.fat = [buf |-> h3.buf.id]], status |-> "ok",
              buffers |-> getMachOFatMemoryBuffers(Filename, h3.buf)]

\* The leading buffers that ObjectFile::createObjectFile accepts.
RECURSIVE ObjectsOf(_)
ObjectsOf(refs) ==
    IF refs = <<>> \/ Head(refs).content.kind # "object" THEN <<>>
    ELSE <<Head(refs)>> \o ObjectsOf(Tail(refs))

NoRequest ==
    [op |-> "none", Filename |-> <<>>, Timestamp |-> MinTime,
     status |-> "none", buffers |-> <<>>, opens |-> 0]

HolderConstructed ==
    /\ CurrentMemoryBuffer = NoBuffer
    /\ CurrentArchives = <<>>
    /\ CurrentObjectFiles = <<>>
    /\ CurrentFatBinary = NoFat
    /\ bhCall = NoRequest

HolderIdle ==
    /\ files = [n \in ArchiveNames |-> Missing]
    /\ HolderConstructed

\* No call of populateUsedSet is being followed.
PopulateIdle ==
    used = [Set |-> {}, Worklist |-> <<>>, Seeds |-> {}, at |-> "idle"]

\* processLoop(L) is entered on the loop that f describes.
EnterProcessLoop(f) ==
    /\ fn = f
    /\ pc = "start"
    /\ result = "none"
    /\ lai = "unknown"
    /\ deps = {}
    /\ parts = <<>>
    /\ defsOut = <<>>
    /\ instToPart = <<>>
    /\ Pointers = <<>>
    /\ ptrToPart = <<>>
    /\ fwd = {}
    /\ needsChecks = "unknown"
    /\ ir = InitIR(f)
    /\ clPred = NoBlock

NoLoop == <<0, NoCopy>>

\* One call of processLoop, on any loop of the input families.
Init ==
    /\ \E f \in Inputs : EnterProcessLoop(f)
    /\ NumLoopsDistributed = 0
    /\ func = <<[loop |-> fn, inner |-> TRUE]>>
    /\ LI = {<<1, Orig>>}
    /\ Worklist = <<>>
    /\ current = <<1, Orig>>
    /\ Changed = FALSE
    /\ visited = <<>>
    /\ rpc = "processLoop"
    /\ runResult = "none"
    /\ TLIIdle
    /\ HolderIdle
    /\ PopulateIdle

\* `return false`.
ReturnFalse == pc' = "done" /\ result' = "false"

\* The original loop as LoopInfo has it.
L == ir.loops[Orig]

\* processLoop, lines 892-900: no preheader or no single exit block.
CheckLoopForm ==
    /\ UNCHANGED outside
    /\ pc = "start"
    /\ IF getLoopPreheader(ir.cfg, L) = NoBlock
          \/ getExitBlock(ir.cfg, L) = NoBlock
       THEN ReturnFalse
       ELSE pc' = "lai" /\ UNCHANGED result
    /\ UNCHANGED <<fn, analysis, partitioning, codegen, ir,
                   NumLoopsDistributed>>

\* getInterestingDependences() returning a null pointer.
NullDependences == {[src |-> 0, dst |-> 0, bw |-> FALSE]}

\* What LoopAccessAnalysis answered, for the record.
Answer(cv, d) ==
    IF cv THEN "canVectorizeMemory"
    ELSE IF d = NullDependences THEN "nullDependences"
    ELSE IF d = {} THEN "noDependences"
    ELSE "dependences"

\* Skipping only for the lack of dependences.
NothingToIsolate(cv, d) == d = NullDependences \/ d = {}

\* processLoop, lines 907-916: the loop is skipped.
SkipsLoop(cv, d) == cv \/ d = NullDependences \/ d = {}

\* processLoop, lines 903-916: the answers of LoopAccessAnalysis.
QueryLAI ==
    /\ UNCHANGED outside
    /\ pc = "lai"
    /\ \E cv \in BOOLEAN,
          d \in DepSets(Len(MemoryInstructions(fn))) \cup {NullDependences} :
          /\ lai' = Answer(cv, d)
          /\ IF SkipsLoop(cv, d)
             THEN ReturnFalse /\ UNCHANGED deps
             ELSE deps' = d /\ pc' = "seed" /\ UNCHANGED result
    /\ UNCHANGED <<fn, partitioning, codegen, ir, NumLoopsDistributed>>

\* processLoop, lines 918-970: seed the partitions from the accesses and
\* from the values used outside the loop.
SeedPartitions ==
    /\ UNCHANGED outside
    /\ pc = "seed"
    /\ LET r == SeedAccesses(MemoryInstructions(fn), deps, 1, <<>>, 0)
           defs == findDefsUsedOutsideOfLoop(fn)
           ps == AddOutside(r.parts, defs)
       IN  /\ parts' = ps
           /\ defsOut' = defs
           /\ IF Len(ps) < 2
              THEN result' = "false"
                   /\ pc' \in (IF r.ok THEN {"done"} ELSE {"done", "crashed"})
              ELSE UNCHANGED result
                   /\ pc' \in (IF r.ok THEN {"mergeAdjacent"}
                               ELSE {"mergeAdjacent", "crashed"})
    /\ UNCHANGED <<fn, analysis, codegen, ir, NumLoopsDistributed>>

\* mergeBeforePopulating, line 375.
MergeAdjacentNonCyclic ==
    /\ UNCHANGED outside
    /\ pc = "mergeAdjacent"
    /\ parts' = mergeAdjacentNonCyclic(parts)
    /\ pc' = "mergeNonIfConv"
    /\ UNCHANGED <<fn, result, analysis, defsOut, codegen, ir,
                   NumLoopsDistributed>>

\* mergeBeforePopulating, lines 376-377, and processLoop, lines 976-977.
MergeNonIfConvertible ==
    /\ UNCHANGED outside
    /\ pc = "mergeNonIfConv"
    /\ LET ps == IF fn.nonIfConv THEN parts
                 ELSE mergeNonIfConvertible(fn, parts)
       IN  /\ parts' = ps
           /\ IF Len(ps) < 2 THEN ReturnFalse
              ELSE pc' = "populate" /\ UNCHANGED result
    /\ UNCHANGED <<fn, analysis, defsOut, codegen, ir, NumLoopsDistributed>>

\* InstPartitionContainer::populateUsedSet.
PopulateUsedSet ==
    /\ UNCHANGED outside
    /\ pc = "populate"
    /\ parts' = populateUsedSets(fn, parts)
    /\ pc' = "mergeLoads"
    /\ UNCHANGED <<fn, result, analysis, defsOut, codegen, ir,
                   NumLoopsDistributed>>

\* processLoop, lines 985-990.
MergeToAvoidDuplicatedLoads ==
    /\ UNCHANGED outside
    /\ pc = "mergeLoads"
    /\ LET ps == mergeToAvoidDuplicatedLoads(fn, parts)
           merged == \E k \in DOMAIN parts : ToBeMerged(fn, parts)[k] # 0
       IN  /\ parts' = ps
           /\ IF merged /\ Len(ps) < 2 THEN ReturnFalse
              ELSE pc' = "prepare" /\ UNCHANGED result
    /\ UNCHANGED <<fn, analysis, defsOut, codegen, ir, NumLoopsDistributed>>

\* Versioning whatever needsRuntimeChecks answers.
AlwaysVersion(nc) == "version"

\* Cloning whatever needsRuntimeChecks answers.
NeverVersion(nc) == "clone"

\* processLoop, lines 1028-1038: versioning only when needsRuntimeChecks.
StepAfterPartitionPointers(nc) == IF nc THEN "version" ELSE "clone"

\* The block processLoop's SplitBlock creates.
SplitCreated == Blk(Orig, "ph1")

\* processLoop, lines 995-1028: the instruction ids, the split of a
\* preheader that is not empty or has no single predecessor, the
\* store-to-load forwarding candidates, the partition of each pointer and the
\* answer of needsRuntimeChecks.
PrepareCodeGen ==
    /\ UNCHANGED outside
    /\ pc = "prepare"
    /\ instToPart' = setupPartitionIdOnInstructions(parts)
    /\ ir' = IF getSinglePredecessor(ir.cfg, PH0) = NoBlock
                \/ ir.extra[PH0] # {}
             THEN SplitBlock(ir, PH0, SplitCreated) ELSE ir
    /\ fwd' = StoreToLoadForwarding(fn, deps)
    /\ Pointers' \in PointerSets(fn)
    /\ ptrToPart' = computePartitionSetForPointers(Pointers', instToPart')
    /\ \E nc \in BOOLEAN :
          /\ needsChecks' = IF nc THEN "yes" ELSE "no"
          /\ LET next == StepAfterPartitionPointers(nc)
             IN  pc' \in (IF \A q \in DOMAIN ptrToPart' : ptrToPart'[q] # Unset
                          THEN {next} ELSE {next, "crashed"})
    /\ UNCHANGED <<fn, result, analysis, partitioning, clPred,
                   NumLoopsDistributed>>

\* processLoop, line 1029.
VersionLoop ==
    /\ UNCHANGED outside
    /\ pc = "version"
    /\ ir' = versionLoop(ir)
    /\ pc' = "phis"
    /\ UNCHANGED <<fn, result, analysis, partitioning, codegen,
                   NumLoopsDistributed>>

\* processLoop, lines 1030-1032.
AddPHINodes ==
    /\ UNCHANGED outside
    /\ pc = "phis"
    /\ \E stop \in BOOLEAN :
          LET r == addPHINodes(ir, defsOut, stop)
              next == IF fwd # {} THEN "annotate" ELSE "clone"
          IN  /\ ir' = r.ir
              /\ pc' \in (IF r.ok THEN {next} ELSE {next, "crashed"})
    /\ UNCHANGED <<fn, result, analysis, partitioning, codegen,
                   NumLoopsDistributed>>

\* processLoop, line 1033.
AnnotateNoAlias ==
    /\ UNCHANGED outside
    /\ pc = "annotate"
    /\ ir' = annotateNoAlias(fn, ir, parts, 1, fwd)
    /\ pc' = "clone"
    /\ UNCHANGED <<fn, result, analysis, partitioning, codegen,
                   NumLoopsDistributed>>

\* processLoop, line 1038: cloneLoops with its assertions.
CloneLoops ==
    /\ UNCHANGED outside
    /\ pc = "clone"
    /\ LET OrigPH == getLoopPreheader(ir.cfg, L)
           Pred == getSinglePredecessor(ir.cfg, OrigPH)
       IN  IF Pred = NoBlock \/ getExitBlock(ir.cfg, L) = NoBlock
              \/ parts = <<>>
           THEN pc' = "crashed" /\ UNCHANGED <<ir, clPred>>
           ELSE /\ clPred' = Pred
                /\ ir' = cloneLoops(ir, Len(parts))
                /\ pc' \in (IF ir.extra[OrigPH] = {} THEN {"prune"}
                            ELSE {"prune", "crashed"})
    /\ UNCHANGED <<fn, result, analysis, partitioning, instToPart, Pointers,
                   ptrToPart, fwd, needsChecks, NumLoopsDistributed>>

\* processLoop, line 1042.
RemoveUnusedInsts ==
    /\ UNCHANGED outside
    /\ pc = "prune"
    /\ LET r == removeUnusedInsts(fn, ir, parts, 0)
       IN  /\ ir' = r.ir
           /\ pc' \in (IF r.ok THEN {"finish"} ELSE {"finish", "crashed"})
    /\ UNCHANGED <<fn, result, analysis, partitioning, codegen,
                   NumLoopsDistributed>>

\* processLoop, lines 1051-1052.
\* Distributing without reporting the change.
FinishUnreported ==
    /\ UNCHANGED outside
    /\ pc = "finish"
    /\ NumLoopsDistributed' = NumLoopsDistributed + 1
    /\ result' = "false"
    /\ pc' = "done"
    /\ UNCHANGED <<fn, analysis, partitioning, codegen, ir>>

Finish ==
    /\ UNCHANGED outside
    /\ pc = "finish"
    /\ NumLoopsDistributed' = NumLoopsDistributed + 1
    /\ result' = "true"
    /\ pc' = "done"
    /\ UNCHANGED <<fn, analysis, partitioning, codegen, ir>>

Next ==
    \/ CheckLoopForm
    \/ QueryLAI
    \/ SeedPartitions
    \/ MergeAdjacentNonCyclic
    \/ MergeNonIfConvertible
    \/ PopulateUsedSet
    \/ MergeToAvoidDuplicatedLoads
    \/ PrepareCodeGen
    \/ VersionLoop
    \/ AddPHINodes
    \/ AnnotateNoAlias
    \/ CloneLoops
    \/ RemoveUnusedInsts
    \/ Finish

Spec == Init /\ [][Next]_vars

\* ------------------------------------------------------------ runOnFunction
MaxLoops == 3

\* A loop with one load, one store and the induction variable used after the
\* loop: the store and the load seed one partition, the value used outside
\* another.
RunLoop(form) ==
    [body |-> <<[kind |-> "load", op |-> 0], [kind |-> "store", op |-> 1]>>,
     pred |-> 0,
     users |-> [i \in 1..BrL |-> IF i = IV THEN <<"direct">> ELSE <<>>],
     form |-> form,
     nonIfConv |-> FALSE,
     addMemchecks |-> TRUE]

RunLoops == {RunLoop(form) : form \in {"empty", "nopreheader"}}

\* The loops of a function in the depth-first order of LoopInfo. A loop that
\* is not innermost is followed by a loop nested in it.
Functions ==
    {F \in SeqsUpTo([loop : RunLoops, inner : BOOLEAN], MaxLoops) :
        /\ Len(F) >= 1
        /\ F[Len(F)].inner}

RECURSIVE InOrder(_)
InOrder(S) ==
    IF S = {} THEN <<>>
    ELSE LET c == CHOOSE x \in S : \A y \in S : x[2] <= y[2]
         IN  <<c>> \o InOrder(S \ {c})

\* The loops LoopInfo holds for loop j once processLoop has worked on it.
LoopsOf(j) == {<<j, c>> : c \in DOMAIN ir.loops}

\* L->empty(): the loop has no subloops.
IsInnermost(l) == l[2] # Orig \/ func[l[1]].inner

RevisitCreated(wl, created) == Tail(wl) \o InOrder(created)

\* The range-for over Worklist steps to the element after L; the loops
\* that processLoop(L) created are in LoopInfo only.
NextInWorklist(wl, created) == Tail(wl)

RunInit ==
    /\ func \in Functions
    /\ LI = {<<j, Orig>> : j \in 1..Len(func)}
    /\ Worklist = <<>>
    /\ current = NoLoop
    /\ Changed = FALSE
    /\ visited = <<>>
    /\ rpc = "build"
    /\ runResult = "none"
    /\ TLIIdle
    /\ HolderIdle
    /\ PopulateIdle
    /\ NumLoopsDistributed = 0
    /\ fn = func[1].loop
    /\ pc = "idle"
    /\ result = "none"
    /\ lai = "unknown"
    /\ deps = {}
    /\ parts = <<>>
    /\ defsOut = <<>>
    /\ instToPart = <<>>
    /\ Pointers = <<>>
    /\ ptrToPart = <<>>
    /\ fwd = {}
    /\ needsChecks = "unknown"
    /\ ir = InitIR(fn)
    /\ clPred = NoBlock

\* Build up a worklist of inner-loops to distribute.
BuildWorklist ==
    /\ UNCHANGED tools
    /\ rpc = "build"
    /\ Worklist' = SelectSeq([j \in 1..Len(func) |-> <<j, Orig>>],
                             LAMBDA l : l \in LI /\ IsInnermost(l))
    /\ Changed' = FALSE
    /\ rpc' = "walk"
    /\ UNCHANGED <<fn, pc, result, analysis, partitioning, codegen, ir,
                   NumLoopsDistributed, func, LI, current, visited, runResult>>

\* processLoop(L) is called on the worklist's current element.
CallProcessLoop ==
    /\ UNCHANGED tools
    /\ rpc = "walk"
    /\ pc = "idle"
    /\ Worklist # <<>>
    /\ current' = Head(Worklist)
    /\ fn' = func[Head(Worklist)[1]].loop
    /\ pc' = "start"
    /\ result' = "none"
    /\ lai' = "unknown"
    /\ deps' = {}
    /\ parts' = <<>>
    /\ defsOut' = <<>>
    /\ instToPart' = <<>>
    /\ Pointers' = <<>>
    /\ ptrToPart' = <<>>
    /\ fwd' = {}
    /\ needsChecks' = "unknown"
    /\ ir' = InitIR(fn')
    /\ clPred' = NoBlock
    /\ UNCHANGED <<NumLoopsDistributed, func, LI, Worklist, Changed, visited,
                   rpc, runResult>>

\* Changed |= processLoop(L), and the loop steps to the next element.
ProcessLoopReturned ==
    /\ UNCHANGED tools
    /\ rpc = "walk"
    /\ pc = "done"
    /\ Changed' = (Changed \/ result = "true")
    /\ visited' = Append(visited, [loop |-> current, result |-> result,
                                   mutated |-> ir # InitIR(fn)])
    /\ LI' = LI \cup LoopsOf(current[1])
    /\ Worklist' = NextInWorklist(Worklist, LoopsOf(current[1]) \ LI)
    /\ pc' = "idle"
    /\ UNCHANGED <<fn, result, analysis, partitioning, codegen, ir,
                   NumLoopsDistributed, func, current, rpc, runResult>>

\* return Changed;
ReturnChanged ==
    /\ UNCHANGED tools
    /\ rpc = "walk"
    /\ pc = "idle"
    /\ Worklist = <<>>
    /\ runResult' = IF Changed THEN "true" ELSE "false"
    /\ rpc' = "returned"
    /\ UNCHANGED <<fn, pc, result, analysis, partitioning, codegen, ir,
                   NumLoopsDistributed, func, LI, Worklist, current, Changed,
                   visited>>

RunNext ==
    \/ BuildWorklist
    \/ CallProcessLoop
    \/ CheckLoopForm
    \/ QueryLAI
    \/ SeedPartitions
    \/ MergeAdjacentNonCyclic
    \/ MergeNonIfConvertible
    \/ PopulateUsedSet
    \/ MergeToAvoidDuplicatedLoads
    \/ PrepareCodeGen
    \/ VersionLoop
    \/ AddPHINodes
    \/ AnnotateNoAlias
    \/ CloneLoops
    \/ RemoveUnusedInsts
    \/ Finish
    \/ ProcessLoopReturned
    \/ ReturnChanged

\* One run of the pass over a function.
RunSpec == RunInit /\ [][RunNext]_vars

\* -------------------------------------------- TargetLibraryInfo, the calls
Called(op, F, Name) ==
    [op |-> op, F |-> F, Name |-> Name,
     was |-> getName(AvailableArray, CustomNames, F), n |-> tliCall.n + 1]

setUnavailable ==
    /\ tliCall.n < MaxCalls
    /\ \E F \in LibFuncs :
          /\ AvailableArray' = setState(AvailableArray, F, Unavailable)
          /\ tliCall' = Called("setUnavailable", F, "")
    /\ UNCHANGED <<CustomNames, loopDistribute, run, holder, used>>

setAvailable ==
    /\ tliCall.n < MaxCalls
    /\ \E F \in LibFuncs :
          /\ AvailableArray' = setState(AvailableArray, F, StandardName)
          /\ tliCall' = Called("setAvailable", F, "")
    /\ UNCHANGED <<CustomNames, loopDistribute, run, holder, used>>

setAvailableWithName ==
    /\ tliCall.n < MaxCalls
    /\ \E F \in LibFuncs : \E Name \in NameArgs(F) :
          /\ IF StandardNames[F] # Name
             THEN /\ AvailableArray' = setState(AvailableArray, F, CustomName)
                  /\ CustomNames' = InsertName(CustomNames, F, Name)
             ELSE /\ AvailableArray' = setState(AvailableArray, F, StandardName)
                  /\ UNCHANGED CustomNames
          /\ tliCall' = Called("setAvailableWithName", F, Name)
    /\ UNCHANGED <<loopDistribute, run, holder, used>>

TLIInit ==
    /\ TLIConstructed
    /\ HolderIdle
    /\ PopulateIdle
    /\ EnterProcessLoop(RunLoop("empty"))
    /\ NumLoopsDistributed = 0
    /\ func = <<[loop |-> fn, inner |-> TRUE]>>
    /\ LI = {<<1, Orig>>}
    /\ Worklist = <<>>
    /\ current = <<1, Orig>>
    /\ Changed = FALSE
    /\ visited = <<>>
    /\ rpc = "processLoop"
    /\ runResult = "none"

TLINext ==
    \/ setUnavailable
    \/ setAvailable
    \/ setAvailableWithName

\* A TargetLibraryInfoImpl under any calls of its setters.
TLISpec == TLIInit /\ [][TLINext]_vars

\* ------------------------------------------------- BinaryHolder, the calls
CurrentHolder ==
    Holder(CurrentMemoryBuffer, CurrentArchives, CurrentObjectFiles,
           CurrentFatBinary, bhCall.opens)

Requested(op, Filename, Timestamp, r) ==
    [op |-> op, Filename |-> Filename, Timestamp |-> Timestamp,
     status |-> r.status, buffers |-> r.buffers, opens |-> r.h.opens]

GetMemoryBuffersForFile ==
    /\ bhCall.opens < MaxOpens
    /\ bhCall.status # "crashed"
    /\ \E Filename \in Requests, Timestamp \in Timestamps :
        \E asserts \in Builds(Filename) :
        \E r \in {GetMemoryBuffersForFileOn(files, CurrentHolder, Filename,
                                             Timestamp, asserts)} :
              /\ CurrentMemoryBuffer' = r.h.buf
              /\ CurrentArchives' = r.h.archives
              /\ CurrentObjectFiles' = r.h.objects
              /\ CurrentFatBinary' = r.h.fat
              /\ bhCall' = Requested("GetMemoryBuffersForFile", Filename,
                                     Timestamp, r)
    /\ UNCHANGED <<files, loopDistribute, run, tli, used>>

GetObjectFiles ==
    /\ bhCall.opens < MaxOpens
    /\ bhCall.status # "crashed"
    /\ \E Filename \in Requests, Timestamp \in Timestamps :
        \E asserts \in Builds(Filename) :
        \E r \in {GetMemoryBuffersForFileOn(files, CurrentHolder, Filename,
                                             Timestamp, asserts)} :
          LET objs == ObjectsOf(r.buffers)
          IN  /\ CurrentMemoryBuffer' = r.h.buf
              /\ CurrentArchives' = r.h.archives
              /\ CurrentFatBinary' = r.h.fat
              /\ CurrentObjectFiles' =
                    IF r.status = "ok" THEN objs ELSE r.h.objects
              /\ bhCall' =
                    Requested("GetObjectFiles", Filename, Timestamp,
                              IF r.status = "ok" /\ Len(objs) < Len(r.buffers)
                              THEN [r EXCEPT !.status = "error"] ELSE r)
    /\ UNCHANGED <<files, loopDistribute, run, tli, used>>

HolderInit ==
    /\ files \in Disks
    /\ HolderConstructed
    /\ TLIIdle
    /\ PopulateIdle
    /\ EnterProcessLoop(RunLoop("empty"))
    /\ NumLoopsDistributed = 0
    /\ func = <<[loop |-> fn, inner |-> TRUE]>>
    /\ LI = {<<1, Orig>>}
    /\ Worklist = <<>>
    /\ current = <<1, Orig>>
    /\ Changed = FALSE
    /\ visited = <<>>
    /\ rpc = "processLoop"
    /\ runResult = "none"

HolderNext ==
    \/ GetMemoryBuffersForFile
    \/ GetObjectFiles

\* A BinaryHolder answering requests over a fixed disk.
HolderSpec == HolderInit /\ [][HolderNext]_vars

\* --------------------------------------------- populateUsedSet, stepwise
MaxSeeds == 2

\* The loops whose partitions are followed through populateUsedSet: one
\* with a single block and one with a predicated block (three terminators).
PopulateInputs == ExampleInputs \cup ConditionalStoreInputs

\* What a partition can be seeded with: memory instructions, and values
\* defined in the loop and used outside of it.
SeedSets(f) ==
    {S \in SUBSET (DOMAIN f.body \cup {IV, INC}) :
        S # {} /\ Cardinality(S) <= MaxSeeds}

\* Every order in which a container can hand out the members of S.
RECURSIVE Orders(_)
Orders(S) ==
    IF S = {} THEN {<<>>}
    ELSE UNION {{<<x>> \o t : t \in Orders(S \ {x})} : x \in S}

\* Mutant of contains: every operand counts as part of the loop.
containsAnyInstruction(f, o) == TRUE

\* OrigLoop->contains(I->getParent()) for an operand that is an instruction.
contains(f, o) == o \in LoopInsts(f)

\* The terminator of every block of the loop is inserted, and the worklist
\* is filled from the set in the order the set's iterator yields.
InsertTerminators ==
    /\ used.at = "start"
    /\ \E wl \in Orders(used.Seeds \cup Terminators(fn)) :
          used' = [used EXCEPT !.Set = used.Seeds \cup Terminators(fn),
                               !.Worklist = wl,
                               !.at = "loop"]
    /\ UNCHANGED <<loopDistribute, run, tli, holder>>

\* One turn of the while loop: pop_back_val, then every operand that is an
\* instruction of the loop and new to the set is inserted and pushed.
VisitWorklist ==
    /\ used.at = "loop"
    /\ used.Worklist # <<>>
    /\ LET I == used.Worklist[Len(used.Worklist)]
           rest == SubSeq(used.Worklist, 1, Len(used.Worklist) - 1)
           pushed == {o \in Ops(fn, I) : contains(fn, o) /\ o \notin used.Set}
       IN  \E order \in Orders(pushed) :
              used' = [used EXCEPT !.Set = used.Set \cup pushed,
                                   !.Worklist = rest \o order]
    /\ UNCHANGED <<loopDistribute, run, tli, holder>>

\* The worklist is empty: populateUsedSet returns.
ReturnPopulated ==
    /\ used.at = "loop"
    /\ used.Worklist = <<>>
    /\ used' = [used EXCEPT !.at = "done"]
    /\ UNCHANGED <<loopDistribute, run, tli, holder>>

PopulateInit ==
    /\ \E f \in PopulateInputs : EnterProcessLoop(f)
    /\ \E S \in SeedSets(fn) :
          used = [Set |-> S, Worklist |-> <<>>, Seeds |-> S, at |-> "start"]
    /\ NumLoopsDistributed = 0
    /\ func = <<[loop |-> fn, inner |-> TRUE]>>
    /\ LI = {<<1, Orig>>}
    /\ Worklist = <<>>
    /\ current = <<1, Orig>>
    /\ Changed = FALSE
    /\ visited = <<>>
    /\ rpc = "processLoop"
    /\ runResult = "none"
    /\ TLIIdle
    /\ HolderIdle

PopulateNext ==
    \/ InsertTerminators
    \/ VisitWorklist
    \/ ReturnPopulated

\* One call of populateUsedSet on a seeded partition, in every order the
\* set and the operand lists can be walked.
PopulateSpec == PopulateInit /\ [][PopulateNext]_vars
\* ------------------------------------------------------------ properties
Returned == pc = "done"

\* C1: when LoopAccessAnalysis reports canVectorizeMemory, processLoop
\* returns false, the IR (blocks, instructions, dominator tree, LoopInfo) is
\* what it was before the call, and no partition has been built.
C1_VectorizableLoopUntouched ==
    lai = "canVectorizeMemory" =>
        /\ Returned /\ result = "false"
        /\ ir = InitIR(fn)
        /\ parts = <<>>
        /\ NumLoopsDistributed = 0

C1_Witness ==
    /\ lai = "canVectorizeMemory" /\ Returned
    /\ fn.body = ExampleBody

\* C2: every return of false happens before the first IR mutation (the IR is
\* exactly as before the call), and once the IR has been changed processLoop
\* returns true.
C2_AbortsBeforeMutation ==
    /\ (Returned /\ result = "false") => ir = InitIR(fn)
    /\ (Returned /\ ir # InitIR(fn)) => result = "true"
    /\ (ir # InitIR(fn)) =>
          pc \in {"version", "phis", "annotate", "clone", "prune", "finish",
                  "done", "crashed"}

\* The last abort: the duplicate-load merge left one populated partition.
C2_Witness ==
    /\ Returned /\ result = "false"
    /\ Len(parts) = 1 /\ IV \in parts[1].set

Loads(f) == {i \in DOMAIN f.body : f.body[i].kind = "load"}

\* mergeToAvoidDuplicatedLoads has run: processLoop went on, or gave up
\* with the one populated partition the merge left.
AfterLoadMerge ==
    \/ pc \in {"prepare", "version", "phis", "annotate", "clone", "prune",
               "finish"}
    \/ Returned /\ result = "true"
    \/ Returned /\ result = "false" /\ parts # <<>> /\ IV \in parts[1].set

PartitionsOf(i) == {k \in DOMAIN parts : i \in parts[k].set}

\* C3: after mergeToAvoidDuplicatedLoads every load of the original loop is
\* a member of exactly one partition.
C3_LoadUniqueness ==
    AfterLoadMerge =>
        \A l \in Loads(fn) : Cardinality(PartitionsOf(l)) = 1

\* A load used outside the loop was seeded twice, in a cyclic partition and
\* in the partition of its outside use; the two were merged and another
\* partition is left beside them.
C3_Witness ==
    /\ pc = "prepare" /\ Len(parts) >= 2
    /\ \E l \in Loads(fn) :
          /\ \E j \in DOMAIN defsOut : defsOut[j] = l
          /\ \E k \in PartitionsOf(l) : parts[k].cyc
          /\ \E d \in deps : d.bw /\ Kind(fn, MemoryInstructions(fn)[d.dst]) = "store"

\* cloneLoops has run.
AfterCloneLoops == pc \in {"prune", "finish"} \/ (Returned /\ result = "true")

\* The copy of the loop that runs the partition at position p (from 0): the
\* last partition keeps the original loop.
ChainCopy(p) == IF p + 1 < Len(parts) THEN p + 1 ELSE Orig

ChainLoop(p) == ir.loops[ChainCopy(p)]

ChainPreheader(p) == getLoopPreheader(ir.cfg, ChainLoop(p))

InstsOfCopy(c) == {r[2] : r \in {x \in DOMAIN ir.insts : x[1] = c}}

\* C4: after cloneLoops on N >= 2 partitions there are N loops chained in
\* partition order: the predecessor of the original preheader branches to
\* the preheader of the first loop, the exit edge of each loop but the last
\* leads to the preheader of the next, only the last loop, which is the
\* original loop, exits to the original exit block, and once pruned the loop
\* at position p holds the instructions of partition p.
C4_ChainOrder ==
    AfterCloneLoops =>
        LET N == Len(parts)
        IN  /\ N >= 2
            /\ DOMAIN ir.loops \ {NonDist} = {Orig} \cup 1..(N - 1)
            /\ \A p \in 0..(N - 1) : ChainPreheader(p) # NoBlock
            /\ ChainPreheader(0) \in Range(ir.cfg[clPred])
            /\ \A p \in 1..(N - 1) :
                  ChainPreheader(p) \notin Range(ir.cfg[clPred])
            /\ \A p \in 0..(N - 2) :
                  ExitBlocks(ir.cfg, ChainLoop(p)) = {ChainPreheader(p + 1)}
            /\ ExitBlocks(ir.cfg, ChainLoop(N - 1)) = {ExitBB}
            /\ pc \in {"finish", "done"} =>
                  \A p \in 0..(N - 1) :
                      InstsOfCopy(ChainCopy(p)) = parts[p + 1].set

\* Three loops chained behind the memcheck block.
C4_Witness ==
    /\ Returned /\ result = "true"
    /\ Len(parts) = 3 /\ needsChecks = "yes"

\* versionLoop has run.
Versioned == NonDist \in DOMAIN ir.loops

\* The block that holds the runtime checks.
MemCheckBlock == CHOOSE b \in DOMAIN ir.extra : "memcheck" \in ir.extra[b]

\* The preheader of the fallback loop.
FallbackEntry == getLoopPreheader(ir.cfg, ir.loops[NonDist])

\* The preheader of the first loop of the distributed chain: of the original
\* loop until cloneLoops has put its clones in front.
ChainEntry ==
    getLoopPreheader(ir.cfg,
        ir.loops[IF 1 \in DOMAIN ir.loops THEN 1 ELSE Orig])

MemCheckTargetsDistinct ==
    /\ Len(ir.cfg[MemCheckBlock]) = 2
    /\ FallbackEntry # NoBlock /\ ChainEntry # NoBlock
    /\ FallbackEntry # ChainEntry

\* C5 (as amended): when runtime checks are emitted, the memcheck block ends
\* in a conditional branch whose true successor enters the fallback
\* (non-distributed) loop and whose false successor enters the distributed
\* chain.
C5_TrueEntersFallback ==
    Versioned =>
        /\ MemCheckTargetsDistinct
        /\ ir.cfg[MemCheckBlock][1] = FallbackEntry
        /\ ir.cfg[MemCheckBlock][2] = ChainEntry

\* C5 as stated: the true successor enters the distributed chain and the
\* false successor the fallback loop.
C5_TrueEntersChain ==
    Versioned =>
        /\ MemCheckTargetsDistinct
        /\ ir.cfg[MemCheckBlock][1] = ChainEntry
        /\ ir.cfg[MemCheckBlock][2] = FallbackEntry

\* A versioned loop whose preheader had to be split first.
C5_Witness ==
    /\ Versioned /\ Returned /\ result = "true"
    /\ fn.form = "nonempty"

\* addPHINodes has just run.
AfterAddPHINodes == Versioned /\ pc \in {"annotate", "clone"}

\* The PHIs of the exit block with value v of the original loop incoming.
PhisFor(v) ==
    {k \in DOMAIN ir.exitPhis :
        \E x \in DOMAIN ir.exitPhis[k].inc :
            ir.exitPhis[k].inc[x].v = <<Orig, v>>}

\* The incoming values of a PHI that merges the two versions of value v.
MergedIncoming(v) ==
    <<[v |-> <<Orig, v>>, b |-> getExitingBlock(ir.cfg, ir.loops[Orig])],
      [v |-> <<NonDist, v>>, b |-> getExitingBlock(ir.cfg, ir.loops[NonDist])]>>

\* C7: after addPHINodes, for every loop-defined value V used outside the
\* loop the exit block holds exactly one PHI for V, with V incoming from the
\* exiting block of the original loop and V's copy from the exiting block of
\* the fallback loop, and every user of V outside the loop reads that PHI
\* rather than V.
C7_OnePhiPerValueUsedOutside ==
    AfterAddPHINodes =>
        \A j \in DOMAIN defsOut :
            LET V == defsOut[j]
            IN  /\ Cardinality(PhisFor(V)) = 1
                /\ \A k \in PhisFor(V) : ir.exitPhis[k].inc = MergedIncoming(V)
                /\ \A u \in DOMAIN ir.outUses[V] :
                      fn.users[V][u] = "direct" => ir.outUses[V][u] = "phi"

\* The fallback copy of a block or of a value of the original loop as the
\* pass found it; what lies outside the loop is its own copy.
FallbackBlock(b) ==
    IF b \in Range(InitIR(fn).loops[Orig]) THEN Blk(NonDist, b[2]) ELSE b

FallbackValue(r) ==
    IF r \in DOMAIN InitIR(fn).insts THEN <<NonDist, r[2]>> ELSE r

\* C6: when runtime checks are emitted, the fallback loop holds a copy of
\* every block and every instruction of the original loop as it was before
\* the pass, with the references inside the loop remapped to the copies, and
\* no later step (alias annotation, cloning of partitions, pruning) removes
\* or changes any of it.
C6_FallbackIsOriginalLoop ==
    Versioned =>
        LET init == InitIR(fn)
        IN  /\ ir.loops[NonDist] =
                   [k \in DOMAIN init.loops[Orig] |->
                       FallbackBlock(init.loops[Orig][k])]
            /\ \A b \in Range(init.loops[Orig]) :
                   ir.cfg[FallbackBlock(b)] =
                       [k \in DOMAIN init.cfg[b] |->
                           FallbackBlock(init.cfg[b][k])]
            /\ {r \in DOMAIN ir.insts : r[1] = NonDist} =
                   {FallbackValue(r) : r \in DOMAIN init.insts}
            /\ \A r \in DOMAIN init.insts :
                   ir.insts[FallbackValue(r)] =
                       {FallbackValue(o) : o \in init.insts[r]}
            /\ {m \in ir.meta : m.i[1] = NonDist} = {}

\* A distribution with runtime checks in which the original loop was
\* annotated, cloned and pruned.
C6_Witness ==
    /\ Versioned /\ Returned /\ result = "true"
    /\ ir.meta # {}
    /\ \E r \in DOMAIN InitIR(fn).insts : r \notin DOMAIN ir.insts

\* C8: after cloning, every block of a cloned loop has as immediate
\* dominator the clone of the immediate dominator of its original block (a
\* cloned header: the cloned preheader); the preheader of the first
\* partition's loop is immediately dominated by the block that preceded the
\* original preheader, and the preheader of every later partition's loop by
\* the exiting block of the previous partition's loop.
C8_DominatorConsistency ==
    AfterCloneLoops =>
        /\ \A c \in DOMAIN ir.loops \ {Orig} :
              \A k \in DOMAIN ir.loops[c] :
                  /\ ir.loops[c][k] = Blk(c, ir.loops[Orig][k][2])
                  /\ ir.idom[ir.loops[c][k]] =
                         Blk(c, ir.idom[ir.loops[Orig][k]][2])
        /\ \A c \in DOMAIN ir.loops :
              ir.idom[Header(c)] = getLoopPreheader(ir.cfg, ir.loops[c])
        /\ clPred # NoBlock
        /\ ir.idom[ChainPreheader(0)] = clPred
        /\ \A p \in 1..(Len(parts) - 1) :
              /\ getExitingBlock(ir.cfg, ChainLoop(p - 1)) # NoBlock
              /\ ir.idom[ChainPreheader(p)] =
                     getExitingBlock(ir.cfg, ChainLoop(p - 1))

\* Three chained loops of three blocks each.
C8_Witness ==
    /\ AfterCloneLoops /\ Len(parts) = 3
    /\ fn.pred # 0

\* The partitions as seeded from the accesses and the values used outside.
Seeded ==
    AddOutside(SeedAccesses(MemoryInstructions(fn), deps, 1, <<>>, 0).parts,
               findDefsUsedOutsideOfLoop(fn))

\* C9: no merge stage (mergeAdjacentNonCyclic, mergeNonIfConvertible,
\* mergeToAvoidDuplicatedLoads) increases the number of partitions, and
\* populateUsedSet leaves the number unchanged.
C9_PartitionCountNonIncreasing ==
    [][/\ pc \in {"mergeAdjacent", "mergeNonIfConv", "mergeLoads"} =>
              Len(parts') <= Len(parts)
       /\ pc = "populate" => Len(parts') = Len(parts)]_vars

\* Every stage has run and the merges left fewer partitions than were
\* seeded, but more than one.
C9_Witness ==
    /\ pc = "prepare"
    /\ Len(parts) >= 2 /\ Len(parts) < Len(Seeded)

\* The example loop with its one possibly-backward dependence, from the load
\* of B (the first access) to the store to B (the fourth).
IsExample ==
    /\ fn.body = ExampleBody
    /\ deps = {[src |-> 1, dst |-> 4, bw |-> TRUE]}

\* C10 (as amended): for the loop { r = B[i]; A[i] = r*2; B[i+1] = A[i]; }
\* with one possibly-backward dependence between the load of B and the store
\* to B, seeding puts all four accesses, which the dependence spans, in one
\* cyclic partition, and processLoop returns false with that one partition.
C10_ExampleStaysOneLoop ==
    IsExample =>
        \/ pc = "seed"
        \/ /\ Returned /\ result = "false"
           /\ parts = <<[set |-> {1, 3, 4, 5}, cyc |-> TRUE]>>
           /\ ir = InitIR(fn)

\* C10 as stated: partitioning ends with exactly two partitions, a cyclic one
\* with the load of B and the store to B and an acyclic one with the store
\* to A.
C10_ExampleTwoPartitions ==
    (IsExample /\ pc # "seed") =>
        /\ Len(parts) = 2
        /\ \E k \in DOMAIN parts : parts[k].cyc /\ {1, 5} \subseteq parts[k].set
        /\ \E k \in DOMAIN parts : ~parts[k].cyc /\ 3 \in parts[k].set

C10_Witness == IsExample /\ Returned

\* The k-th memory access is the source or the destination of a
\* possibly-backward dependence, or lies between the two in program order.
Spanned(k) == \E d \in deps : d.bw /\ d.src <= k /\ k <= d.dst

\* The partition the k-th memory access was seeded into.
SeedIndex(k) ==
    CHOOSE p \in DOMAIN parts :
        /\ MemoryInstructions(fn)[k] \in parts[p].set
        /\ \A q \in 1..(p - 1) : MemoryInstructions(fn)[k] \notin parts[q].set

InCyclicPartition(i) == \E p \in DOMAIN parts : parts[p].cyc /\ i \in parts[p].set

\* C11: seeding walks the accesses in program order; an access goes to the
\* current cyclic partition (a new one when the last partition is not
\* cyclic) exactly when a possibly-backward dependence is active before it
\* or starts at it, every other access opens an acyclic partition of its
\* own; so an access is in a cyclic partition iff it is the source or the
\* destination of a possibly-backward dependence or lies between the two.
C11_SeedingByActiveDependences ==
    pc = "mergeAdjacent" =>
        LET mem == MemoryInstructions(fn)
        IN  /\ \A k \in DOMAIN mem :
                  /\ \E p \in DOMAIN parts : mem[k] \in parts[p].set
                  /\ InCyclicPartition(mem[k]) <=> Spanned(k)
                  /\ Spanned(k) => parts[SeedIndex(k)].cyc
                  /\ ~Spanned(k) =>
                        parts[SeedIndex(k)] = [set |-> {mem[k]}, cyc |-> FALSE]
            /\ mem # <<>> => SeedIndex(1) = 1
            /\ \A k \in 1..(Len(mem) - 1) :
                  SeedIndex(k + 1) =
                      IF Spanned(k) /\ Spanned(k + 1) THEN SeedIndex(k)
                      ELSE SeedIndex(k) + 1

\* A cyclic partition next to the acyclic partition of an access no
\* dependence spans, and a spanned access that is neither source nor
\* destination.
C11_Witness ==
    /\ pc = "mergeAdjacent"
    /\ \E k \in DOMAIN MemoryInstructions(fn) :
          ~Spanned(k) /\ SeedIndex(k) + 1 \in DOMAIN parts
          /\ parts[SeedIndex(k) + 1].cyc
    /\ \E k \in DOMAIN MemoryInstructions(fn) :
          Spanned(k) /\ \A d \in deps : d.src # k /\ d.dst # k

\* NumUnsafeDependencesActive after the k-th access.
RECURSIVE RunningSum(_)
RunningSum(k) ==
    IF k = 0 THEN 0
    ELSE Accumulate(RunningSum(k - 1), NumUnsafeDependencesStartOrEnd(deps, k))

\* The possibly-backward dependences with the source at or before the k-th
\* access and the destination after it.
ActiveAfter(k) == {d \in deps : d.bw /\ d.src <= k /\ k < d.dst}

\* C12: with the delta of each access in an unsigned 32-bit counter and the
\* deltas accumulated into an int, the running sum after each access is the
\* number of possibly-backward dependences with the source at or before the
\* access and the destination after it; it is never negative (the assertion
\* holds) and it is 0 after the last access.
C12_RunningSumCountsActive ==
    lai = "dependences" =>
        LET mem == MemoryInstructions(fn)
        IN  /\ \A k \in DOMAIN mem :
                  /\ RunningSum(k) = Cardinality(ActiveAfter(k))
                  /\ RunningSum(k) >= 0
            /\ RunningSum(Len(mem)) = 0
            /\ SeedAccesses(mem, deps, 1, <<>>, 0).ok

\* An access at which one dependence ends and none starts, its counter
\* wrapped below zero, while another dependence stays active.
C12_Witness ==
    /\ pc = "mergeAdjacent"
    /\ \E k \in DOMAIN MemoryInstructions(fn) :
          /\ NumUnsafeDependencesStartOrEnd(deps, k).hi = Half - 1
          /\ RunningSum(k) = 1

\* The blocks that belong to no loop.
OutsideLoops ==
    DOMAIN ir.cfg \ UNION {Range(ir.loops[c]) : c \in DOMAIN ir.loops}

\* C13: when needsRuntimeChecks is false, no fallback loop is cloned, no
\* memcheck block or conditional guard is inserted, no exit PHI is added and
\* no alias metadata is attached; after cloning the function holds exactly
\* N loops for the N partitions, entered unconditionally one after the other.
C13_NoChecksNoVersioning ==
    needsChecks = "no" =>
        /\ NonDist \notin DOMAIN ir.loops
        /\ \A b \in DOMAIN ir.extra : "memcheck" \notin ir.extra[b]
        /\ \A b \in OutsideLoops :
              Len(ir.cfg[b]) <=
                  (IF b \in DOMAIN InitIR(fn).cfg
                   THEN Len(InitIR(fn).cfg[b]) ELSE 1)
        /\ Len(ir.exitPhis) = Len(InitIR(fn).exitPhis)
        /\ \A k \in DOMAIN ir.exitPhis : Len(ir.exitPhis[k].inc) = 1
        /\ ir.meta = {}
        /\ AfterCloneLoops =>
              /\ DOMAIN ir.loops = {Orig} \cup 1..(Len(parts) - 1)
              /\ ir.cfg[clPred] = <<ChainPreheader(0)>>
              /\ \A p \in 0..(Len(parts) - 2) :
                    ExitBlocks(ir.cfg, ChainLoop(p)) = {ChainPreheader(p + 1)}

\* A distribution without checks of a loop that has forwarding candidates
\* and a value with an exit PHI.
C13_Witness ==
    /\ needsChecks = "no" /\ Returned /\ result = "true"
    /\ fwd # {} /\ ir.exitPhis # <<>>

\* The innermost loops of the function when the pass starts, in order.
InnermostAtStart ==
    SelectSeq([j \in 1..Len(func) |-> <<j, Orig>>],
              LAMBDA l : func[l[1]].inner)

VisitedLoops == [k \in 1..Len(visited) |-> visited[k].loop]

\* processLoop has distributed a loop and its result is not yet consumed.
Pending == IF pc = "done" /\ result = "true" /\ rpc = "walk" THEN 1 ELSE 0

DistributedSoFar ==
    Cardinality({k \in 1..Len(visited) : visited[k].mutated}) + Pending

\* C14: runOnFunction calls processLoop on the innermost loops present when
\* the pass starts, in order and each once, never on a loop that
\* distribution created; it returns true iff some call distributed its loop;
\* NumLoopsDistributed counts exactly the loops that were distributed.
C14_RunOnFunction ==
    /\ \A k \in 1..Len(visited) :
          /\ k <= Len(InnermostAtStart)
          /\ visited[k].loop = InnermostAtStart[k]
          /\ visited[k].mutated <=> visited[k].result = "true"
    /\ rpc = "returned" =>
          /\ VisitedLoops = InnermostAtStart
          /\ runResult = "true" <=> \E k \in 1..Len(visited) : visited[k].mutated
    /\ NumLoopsDistributed = DistributedSoFar

\* A function with a loop nest and two innermost loops, one distributed
\* with a fallback loop and one left alone.
C14_Witness ==
    /\ rpc = "returned"
    /\ runResult = "true"
    /\ \E j \in 1..Len(func) : ~func[j].inner
    /\ \E k \in 1..Len(visited) : ~visited[k].mutated
    /\ \E k \in 1..Len(visited) :
          /\ visited[k].mutated
          /\ <<visited[k].loop[1], NonDist>> \in LI
    /\ NumLoopsDistributed = 1

C15_Function == tliCall.F

C15_AfterCall ==
    /\ tliCall.op = "setAvailableWithName" =>
          /\ has(AvailableArray, C15_Function)
          /\ getName(AvailableArray, CustomNames, C15_Function) = {tliCall.Name}
          /\ getState(AvailableArray, C15_Function) =
                IF tliCall.Name = StandardNames[C15_Function]
                THEN StandardName ELSE CustomName
    /\ tliCall.op = "setUnavailable" =>
          /\ ~has(AvailableArray, C15_Function)
          /\ getName(AvailableArray, CustomNames, C15_Function) = {""}
    /\ tliCall.op = "setAvailable" =>
          getName(AvailableArray, CustomNames, C15_Function)
             = {StandardNames[C15_Function]}

C15_OthersKept ==
    \A G \in LibFuncs \ {tliCall'.F} :
        getState(AvailableArray', G) = getState(AvailableArray, G)

\* C15: after setAvailableWithName(F, Name), has(F) holds and getName(F) is
\* Name, the state being StandardName exactly when Name is F's standard
\* name; after setUnavailable(F), has(F) fails and getName(F) is empty; after
\* setAvailable(F), getName(F) is the standard name; and every call leaves
\* the 2-bit state of every other function as it was.
C15_AvailabilityRoundTrip == [](C15_AfterCall) /\ [][C15_OthersKept]_vars

\* A function of the second byte is renamed a second time while its
\* neighbour in that byte is unavailable.
C15_Witness ==
    /\ tliCall.op = "setAvailableWithName"
    /\ tliCall.F = 5
    /\ tliCall.Name = "alt2"
    /\ tliCall.was = {"alt1"}
    /\ getState(AvailableArray, 4) = Unavailable
    /\ getState(AvailableArray, 0) = StandardName

\* The members of the cached archives that are called m and pass the
\* timestamp test, as buffers, archive by archive.
C16_Members(m, Timestamp) ==
    Concat([k \in 1..Len(CurrentArchives) |->
        SelectSeq(ChildrenOf(CurrentArchives[k]),
                  LAMBDA c : c.child.name = m
                             /\ PassesTimestamp(Timestamp, c.child))])

C16_Readable(cs) == \A k \in 1..Len(cs) : cs[k].child.readable

\* The request names a member of the current archive that passes the
\* timestamp test (and can be read).
C16_FromCache(Filename, Timestamp, m) ==
    /\ CurrentArchives # <<>>
    /\ Filename = CurrentArchives[1].name \o <<"(">> \o m \o <<")">>
    /\ C16_Members(m, Timestamp) # <<>>
    /\ C16_Readable(C16_Members(m, Timestamp))

C16_Answered ==
    \A m \in MemberNames :
        C16_FromCache(bhCall'.Filename, bhCall'.Timestamp, m) =>
            /\ bhCall'.status = "ok"
            /\ bhCall'.buffers =
                  [k \in 1..Len(C16_Members(m, bhCall'.Timestamp)) |->
                      C16_Members(m, bhCall'.Timestamp)[k].ref]
            /\ UNCHANGED <<CurrentMemoryBuffer, CurrentArchives,
                           CurrentFatBinary>>

C16_Replaced ==
    /\ CurrentMemoryBuffer'.id # CurrentMemoryBuffer.id
    /\ \A k \in 1..Len(CurrentArchives') :
          CurrentArchives'[k].buf = CurrentMemoryBuffer'.id
    /\ \A k \in 1..Len(CurrentObjectFiles') :
          CurrentObjectFiles'[k].buf = CurrentMemoryBuffer'.id
    /\ CurrentFatBinary'.buf \in {NoFat.buf, CurrentMemoryBuffer'.id}

C16_OtherwiseReplaced ==
    (/\ bhCall'.status = "ok"
     /\ \A m \in MemberNames :
           ~C16_FromCache(bhCall'.Filename, bhCall'.Timestamp, m))
    => C16_Replaced

C16_ArchivesOfCurrentBuffer ==
    \A k \in 1..Len(CurrentArchives) :
        CurrentArchives[k].buf = CurrentMemoryBuffer.id

\* C16: a request archive(member) naming the current archive and a member
\* that passes the timestamp test is answered from the cached archives and
\* leaves the backing buffer, the cached archives and the fat binary alone;
\* every other successful request replaces the backing buffer, after which
\* nothing cached belongs to the old one; cached archives always belong to
\* the current backing buffer.
C16_CacheFirst ==
    /\ [](C16_ArchivesOfCurrentBuffer)
    /\ [][C16_Answered]_vars
    /\ [][C16_OtherwiseReplaced]_vars

\* The loops cloned for partitions.
PartitionClones == DOMAIN ir.loops \ {Orig, NonDist}

Cloned == PartitionClones # {}

\* Some loop of the chain has lost instructions.
Pruned == \E c \in DOMAIN ir.loops \ {NonDist} : InstsOfCopy(c) # LoopInsts(fn)

\* The steps of code generation, by what they do to the IR.
VersioningStep == NonDist \notin DOMAIN ir.loops /\ NonDist \in DOMAIN ir'.loops

CloningStep == ~Cloned /\ \E c \in DOMAIN ir'.loops : c \notin {Orig, NonDist}

PruningStep == \E x \in DOMAIN ir.insts : x \notin DOMAIN ir'.insts

AnnotatingStep ==
    /\ DOMAIN ir'.insts = DOMAIN ir.insts
    /\ ir'.meta # ir.meta

C17_Order ==
    /\ VersioningStep => ~Cloned /\ ~Pruned
    /\ AnnotatingStep => Versioned /\ ~Cloned /\ ~Pruned
    /\ CloningStep =>
          /\ ~Pruned
          /\ needsChecks = "yes" => Versioned
          /\ (needsChecks = "yes" /\ fwd # {}) => ir.meta # {}
    /\ PruningStep => Cloned

\* C17: in code generation the loop is versioned and annotated first (both
\* only when runtime checks are needed), then cloned for the partitions,
\* then pruned.
C17_VersionBeforeCloning == [][C17_Order]_vars

\* C17 as stated: cloning and pruning come first, versioning and annotation
\* after them.
C17_CloningBeforeVersioning ==
    [][/\ VersioningStep => Cloned /\ Pruned
       /\ AnnotatingStep => Cloned /\ Pruned /\ Versioned]_vars

\* A distributed loop that was versioned, annotated, cloned and pruned.
C17_Witness ==
    /\ Returned
    /\ result = "true"
    /\ Versioned
    /\ Cloned
    /\ Pruned
    /\ \E m \in ir.meta : m.i[1] = Orig

\* populateUsedSet has expanded the partitions: each holds every terminator.
Populated ==
    /\ parts # <<>>
    /\ \A k \in DOMAIN parts : Terminators(fn) \subseteq parts[k].set

NoAdjacentAcyclic ==
    \A k \in 1..(Len(parts) - 1) : parts[k].cyc \/ parts[k + 1].cyc

\* No two neighbours that mergeNonIfConvertible would put together.
NoAdjacentNonIfConvertible ==
    \A k \in 1..(Len(parts) - 1) :
        ~(OnlyConditionalStores(fn, parts[k])
          /\ OnlyConditionalStores(fn, parts[k + 1]))

MergingStep == parts # <<>> /\ Len(parts') < Len(parts)

\* C18: the adjacent-acyclic merge and then the non-if-convertible merge run
\* on the seeded partitions; populateUsedSet expands the partitions next; the
\* duplicate-load merge runs last, on the expanded partitions.
C18_MergeStages ==
    /\ pc = "mergeAdjacent" => ~Populated
    /\ pc = "mergeNonIfConv" => ~Populated /\ NoAdjacentAcyclic
    /\ pc = "populate" =>
          /\ ~Populated
          /\ NoAdjacentAcyclic
          /\ ~fn.nonIfConv => NoAdjacentNonIfConvertible
    /\ pc = "mergeLoads" => Populated
    /\ pc = "prepare" =>
          /\ Populated
          /\ \A l \in Loads(fn) : Cardinality(PartitionsOf(l)) = 1

\* C18 as stated: every merge is over before any partition is expanded.
C18_MergesBeforePopulating == [][MergingStep => ~Populated]_vars

\* The first merge and the last one both merged partitions, the last one
\* after populateUsedSet.
C18_Witness ==
    /\ Populated
    /\ pc \notin {"populate", "mergeLoads"}
    /\ Len(mergeAdjacentNonCyclic(Seeded)) < Len(Seeded)
    /\ Len(parts) < Len(mergeNonIfConvertible(fn, mergeAdjacentNonCyclic(Seeded)))

\* The position that partition k of S has once every maximal run of
\* consecutive acyclic partitions counts as one.
RECURSIVE RunOf(_, _)
RunOf(S, k) ==
    IF k = 1 THEN 1
    ELSE IF ~S[k - 1].cyc /\ ~S[k].cyc THEN RunOf(S, k - 1)
    ELSE RunOf(S, k - 1) + 1

\* R is S with every maximal run of acyclic partitions collapsed into one
\* acyclic partition, the cyclic partitions as they were.
CollapsedRuns(S, R) ==
    /\ Len(R) = IF S = <<>> THEN 0 ELSE RunOf(S, Len(S))
    /\ \A j \in DOMAIN R :
          LET members == {k \in DOMAIN S : RunOf(S, k) = j}
          IN  /\ R[j].set = UNION {S[k].set : k \in members}
              /\ \A k \in members : R[j].cyc = S[k].cyc
              /\ R[j].cyc => Cardinality(members) = 1

PartitionsMerged ==
    pc \in {"mergeNonIfConv", "populate", "mergeLoads", "prepare", "version",
            "phis", "annotate", "clone", "prune", "finish"}

CodeGeneration ==
    pc \in {"prepare", "version", "phis", "annotate", "clone", "prune",
            "finish"}

\* C19: mergeAdjacentNonCyclic turns every maximal run of consecutive
\* acyclic partitions into one partition with the union of their
\* instructions, in the place of the run, and leaves cyclic partitions as
\* they are; from then on no two adjacent partitions are both acyclic, and
\* the partitions that reach code generation include a cyclic one.
C19_AcyclicRunsCollapsed ==
    /\ pc = "mergeNonIfConv" => CollapsedRuns(Seeded, parts)
    /\ PartitionsMerged => NoAdjacentAcyclic
    /\ (CodeGeneration /\ Len(parts) >= 2) => \E k \in DOMAIN parts : parts[k].cyc

\* A run of two acyclic partitions beside a cyclic one was collapsed and the
\* loop went on to code generation.
C19_Witness ==
    /\ pc = "prepare"
    /\ Len(parts) >= 2
    /\ \E k \in 1..(Len(Seeded) - 1) : ~Seeded[k].cyc /\ ~Seeded[k + 1].cyc
    /\ \E k \in DOMAIN Seeded : Seeded[k].cyc

\* An acyclic partition with a store and every store of it conditional.
ConditionalStoresOnly(P) ==
    /\ ~P.cyc
    /\ \E i \in P.set : Kind(fn, i) = "store"
    /\ \A i \in P.set :
          Kind(fn, i) = "store" => BlockNeedsPredication(fn, BlockOf(fn, i))

\* The position of partition k when the sequence is cut after the
\* positions in cuts.
GroupOf(cuts, k) == 1 + Cardinality({c \in cuts : c < k})

\* R is S with runs of neighbours merged: each partition of R holds the
\* instructions of its run and is cyclic iff one of the run is.
MergesInto(S, R) ==
    \E cuts \in SUBSET (1..(Len(S) - 1)) :
        /\ Len(R) = Cardinality(cuts) + 1
        /\ \A j \in DOMAIN R :
              LET members == {k \in DOMAIN S : GroupOf(cuts, k) = j}
              IN  /\ R[j].set = UNION {S[k].set : k \in members}
                  /\ R[j].cyc <=> \E k \in members : S[k].cyc

C20_Merged ==
    pc = "populate" =>
        IF fn.nonIfConv
        THEN CollapsedRuns(Seeded, parts)
        ELSE \A k \in DOMAIN parts : ~ConditionalStoresOnly(parts[k])

C20_CycleKept ==
    (pc \in {"mergeAdjacent", "mergeNonIfConv", "mergeLoads"} /\ parts # <<>>)
        => MergesInto(parts, parts')

\* C20: without loop-distribute-non-if-convertible no acyclic partition
\* whose stores are all conditional is left on its own by
\* mergeNonIfConvertible, with the flag the partitions stay as
\* mergeAdjacentNonCyclic left them; and every merge makes a partition
\* cyclic iff one of the partitions merged into it was.
C20_NonIfConvertible == [](C20_Merged) /\ [][C20_CycleKept]_vars

\* A conditional store in a partition of its own was merged with the cyclic
\* partition before it, and another partition is left.
C20_Witness ==
    /\ pc = "populate"
    /\ ~fn.nonIfConv
    /\ Len(parts) >= 2
    /\ Len(parts) < Len(mergeAdjacentNonCyclic(Seeded))
    /\ \E k \in DOMAIN Seeded : ConditionalStoresOnly(Seeded[k])

\* The partitions of S that hold load l.
HoldersOf(S, l) == {k \in DOMAIN S : l \in S[k].set}

\* Some load lies in a partition at or before k and in one after k, so that
\* k and k + 1 end in the same equivalence class.
Joined(S, k) ==
    \E l \in Loads(fn) :
        /\ \E j \in HoldersOf(S, l) : j <= k
        /\ \E i \in HoldersOf(S, l) : i > k

\* The position of partition k of S once joined neighbours count as one.
RECURSIVE ClassOf(_, _)
ClassOf(S, k) ==
    IF k = 1 THEN 1
    ELSE IF Joined(S, k - 1) THEN ClassOf(S, k - 1)
    ELSE ClassOf(S, k - 1) + 1

\* R is S with every class replaced by the union of its members, in place.
ClassesMerged(S, R) ==
    /\ Len(R) = IF S = <<>> THEN 0 ELSE ClassOf(S, Len(S))
    /\ \A j \in DOMAIN R :
          LET members == {k \in DOMAIN S : ClassOf(S, k) = j}
          IN  /\ R[j].set = UNION {S[k].set : k \in members}
              /\ Cardinality(members) = 1 => \A k \in members : R[j] = S[k]

\* The partitions as populateUsedSet left them.
PopulatedPartitions ==
    populateUsedSets(fn,
        IF fn.nonIfConv THEN mergeAdjacentNonCyclic(Seeded)
        ELSE mergeNonIfConvertible(fn, mergeAdjacentNonCyclic(Seeded)))

\* C21: mergeToAvoidDuplicatedLoads puts every partition from the first
\* holder of a load to each later holder into one class; the classes are
\* runs of neighbours, each replaced in place by one partition with the
\* union of the members' instructions; a partition in no class is unchanged.
C21_LoadMergeCollapsesRanges ==
    [][pc = "mergeLoads" => ClassesMerged(parts, parts')]_vars

\* A load in two partitions with a partition between them that does not
\* hold it: the three became one.
C21_Witness ==
    /\ Populated
    /\ pc \notin {"populate", "mergeLoads"}
    /\ Len(parts) < Len(PopulatedPartitions)
    /\ \E l \in Loads(fn) :
          \E j, i \in HoldersOf(PopulatedPartitions, l) :
              \E k \in DOMAIN PopulatedPartitions :
                  j < k /\ k < i /\ k \notin HoldersOf(PopulatedPartitions, l)
\* X holds, with each of its members, every operand of the member that is
\* an instruction inside the loop.
ClosedUnderLoopOperands(X) ==
    \A i \in X : \A o \in Ops(fn, i) : o \in LoopInsts(fn) => o \in X

\* R is the least set that holds the seeds and the terminator of every
\* block of the loop and is closed under operands inside the loop.
LeastUsedSet(seeds, R) ==
    /\ seeds \cup Terminators(fn) \subseteq R
    /\ ClosedUnderLoopOperands(R)
    /\ \A X \in SUBSET R :
          (seeds \cup Terminators(fn) \subseteq X /\ ClosedUnderLoopOperands(X))
              => X = R

\* C22: populateUsedSet turns a partition's set into the least set that
\* contains the partition's seeds and every block terminator of the loop and
\* is closed under "operand that is an instruction inside the loop"; in
\* whatever order the worklist was filled and the operands were pushed the
\* result is that one set (the set the one-step populateUsedSet computes),
\* and at no point does the set hold an instruction from outside the loop.
C22_LeastClosedUsedSet ==
    /\ used.Set \subseteq LoopInsts(fn)
    /\ used.at = "done" =>
          /\ LeastUsedSet(used.Seeds, used.Set)
          /\ used.Set = populateUsedSet(fn, [set |-> used.Seeds, cyc |-> FALSE]).set

\* populateUsedSet has returned on a partition holding a memory access,
\* whose pointer operand is defined outside the loop, and the set has grown
\* beyond the seeds and the terminators.
C22_Witness ==
    /\ used.at = "done"
    /\ \E i \in used.Seeds : BASE \in Ops(fn, i)
    /\ used.Set # used.Seeds \cup Terminators(fn)
    /\ Cardinality(Terminators(fn)) > 1
\* C23: removeUnusedInsts leaves in the loop of each partition (its clone,
\* or the original loop for the last partition) exactly the instructions of
\* the partition's final set, as copies in a clone, and deletes every other
\* instruction of that loop; no deleted instruction is a branch (the
\* assertion holds), every final partition holding the terminator of every
\* block of the loop; the instructions of the fallback loop are left alone.
C23_PruningKeepsPartitionSets ==
    [][pc = "prune" =>
          /\ pc' = "finish"
          /\ \A p \in 0 .. Len(parts) - 1 :
                /\ Terminators(fn) \subseteq parts[p + 1].set
                /\ {x \in DOMAIN ir'.insts : x[1] = ChainCopy(p)}
                       = {<<ChainCopy(p), i>> : i \in parts[p + 1].set}
                /\ {x \in DOMAIN ir.insts : x[1] = ChainCopy(p)}
                       = {<<ChainCopy(p), i>> : i \in LoopInsts(fn)}
          /\ \A x \in DOMAIN ir.insts :
                x[1] \notin {ChainCopy(p) : p \in 0 .. Len(parts) - 1}
                    => x \in DOMAIN ir'.insts /\ ir'.insts[x] = ir.insts[x]]_vars

\* Pruning has deleted instructions both from a clone and from the original
\* loop, and each of the two still holds its terminators.
C23_Witness ==
    /\ pc = "finish"
    /\ Len(parts) >= 2
    /\ InstsOfCopy(Orig) # LoopInsts(fn)
    /\ InstsOfCopy(1) # LoopInsts(fn)
    /\ Terminators(fn) \subseteq InstsOfCopy(Orig) \cap InstsOfCopy(1)
    /\ Cardinality(Terminators(fn)) > 1
\* The positions (from 0) of the partitions of S that hold instruction i.
HoldingPartitions(S, i) == {k - 1 : k \in {j \in DOMAIN S : i \in S[j].set}}

AccessesOf(ptrs, q) == {ptrs[q][n] : n \in DOMAIN ptrs[q]}

\* C24: computePartitionSetForPointers gives a runtime-checkable pointer the
\* id k, a position 0..N-1 of the final sequence, when every instruction
\* accessing it belongs to partition k and to no other, gives it -1 when its
\* instructions belong to different partitions or one of them belongs to
\* several, and leaves -2 for no pointer that has an access instruction: the
\* assertion holds.
C24_PointerPartitions ==
    [][pc = "prepare" =>
          /\ pc' # "crashed"
          /\ DOMAIN ptrToPart' = DOMAIN Pointers'
          /\ \A q \in DOMAIN Pointers' :
                LET A == AccessesOf(Pointers', q)
                    in == UNION {HoldingPartitions(parts, i) : i \in A}
                IN  /\ A # {} => ptrToPart'[q] # Unset
                    /\ \A k \in 0 .. Len(parts) - 1 :
                          (\A i \in A : HoldingPartitions(parts, i) = {k})
                              => ptrToPart'[q] = k
                    /\ Cardinality(in) > 1 => ptrToPart'[q] = Ambiguous]_vars

\* The pointers have been partitioned: one pointer with two accesses in
\* different partitions is ambiguous, another has the id of the partition
\* past the first that holds its access.
C24_Witness ==
    /\ pc \in {"version", "clone"}
    /\ \E q \in DOMAIN Pointers :
          /\ Len(Pointers[q]) >= 2
          /\ ptrToPart[q] = Ambiguous
    /\ \E q \in DOMAIN Pointers : ptrToPart[q] \in 1 .. Len(parts) - 1
\* The instructions of the cyclic partitions.
InCyclicPartitions ==
    UNION {parts[k].set : k \in {j \in DOMAIN parts : parts[j].cyc}}

\* Some possibly-backward dependence leads from a load to a store.
ForwardingCandidate ==
    \E d \in deps :
        /\ d.bw
        /\ Kind(fn, MemoryInstructions(fn)[d.src]) = "load"
        /\ Kind(fn, MemoryInstructions(fn)[d.dst]) = "store"
        /\ {MemoryInstructions(fn)[d.src], MemoryInstructions(fn)[d.dst]}
               \subseteq fwd

\* C25: alias metadata is attached only when runtime checks were emitted and
\* a store-to-load forwarding candidate was collected (a possibly-backward
\* dependence from a load to a store, with the add-memchecks flag on); only
\* instructions of cyclic partitions are touched: in a cyclic partition every
\* load of the forwarding set gets the no-alias scope and every store outside
\* the forwarding set gets the alias scope, and the metadata of every other
\* instruction is what it was.
C25_AliasAnnotation ==
    [][/\ AnnotatingStep =>
             /\ pc = "annotate"
             /\ needsChecks = "yes" /\ Versioned
             /\ fn.addMemchecks /\ ForwardingCandidate
       /\ pc = "annotate" =>
             LET loads == {i \in InCyclicPartitions :
                             Kind(fn, i) = "load" /\ i \in fwd}
                 stores == {i \in InCyclicPartitions :
                              Kind(fn, i) = "store" /\ i \notin fwd}
             IN  /\ \A i \in loads :
                       [i |-> <<Orig, i>>, md |-> "noalias"] \in ir'.meta
                 /\ \A i \in stores :
                       [i |-> <<Orig, i>>, md |-> "alias.scope"] \in ir'.meta
                 /\ \A x \in DOMAIN ir'.insts :
                       (x[1] # Orig \/ x[2] \notin loads \cup stores)
                           => {m \in ir'.meta : m.i = x}
                                  = {m \in ir.meta : m.i = x}
                 /\ \A m \in ir'.meta : m.i \in DOMAIN ir'.insts]_vars

\* The annotator has run on a loop that has a cyclic partition with a load
\* of the forwarding set and a store outside of it, and a store that it
\* left alone.
C25_Witness ==
    /\ pc = "clone"
    /\ needsChecks = "yes"
    /\ \E m \in ir.meta : Kind(fn, m.i[2]) = "load" /\ m.md = "noalias"
    /\ \E m \in ir.meta : Kind(fn, m.i[2]) = "store" /\ m.md = "alias.scope"
    /\ \E i \in DOMAIN fn.body :
          /\ Kind(fn, i) = "store"
          /\ i \notin fwd
          /\ \A m \in ir.meta : m.i # <<Orig, i>>
\* C26: the assertion of addPHINodes holds whatever the number of
\* loop-defined values used outside the loop: every PHI looked at from the
\* start of the exit block while a value's PHI is searched has exactly one
\* incoming value, the PHIs created or extended for the values handled
\* earlier in the same call included; addPHINodes never stops on it.
C26_PhiAssertionHolds ==
    [][pc = "phis" => pc' # "crashed"]_vars
\* The preheader has no single predecessor or holds more than its
\* terminator.
NeedsSplit(i) ==
    LET PH == getLoopPreheader(i.cfg, i.loops[Orig])
    IN  getSinglePredecessor(i.cfg, PH) = NoBlock \/ i.extra[PH] # {}

\* C27: whenever cloneLoops runs, after versioning or without it, the
\* preheader of the loop has a single predecessor and holds only its
\* terminator, so that neither assertion fails; a preheader that holds more
\* or has no single predecessor is split before code generation, which goes
\* on to versioning or cloning instead of giving up.
C27_PreheaderReadyForCloning ==
    [][/\ pc = "clone" => ~NeedsSplit(ir) /\ pc' = "prune"
       /\ (pc = "prepare" /\ NeedsSplit(ir)) =>
             /\ ~NeedsSplit(ir')
             /\ getLoopPreheader(ir'.cfg, ir'.loops[Orig]) = SplitCreated
             /\ getSinglePredecessor(ir'.cfg, SplitCreated) = PH0
             /\ ir'.extra[PH0] = ir.extra[PH0]
             /\ pc' \in {"version", "clone"}]_vars

\* The loops were cloned after versioning in a function whose preheader was
\* the entry block and held instructions of its own.
C27_Witness ==
    /\ pc = "prune"
    /\ fn.form = "entry"
    /\ Versioned
    /\ Len(parts) >= 2
    /\ ir.extra[PH0] # {}
\* C28: whenever the loop is distributed, every loop-defined value used
\* outside the loop is a member of the last partition of the final sequence,
\* the one that keeps the original loop, whatever was merged; pruning
\* therefore leaves in the original loop the definition that the users
\* outside and the exit PHIs refer to.
C28_OutsideDefsInLastPartition ==
    /\ CodeGeneration \/ (Returned /\ result = "true") =>
          \A j \in DOMAIN defsOut : defsOut[j] \in parts[Len(parts)].set
    /\ pc = "finish" \/ (Returned /\ result = "true") =>
          \A j \in DOMAIN defsOut : <<Orig, defsOut[j]>> \in DOMAIN ir.insts

\* A loop was distributed after a merge, one of the values used outside is
\* a load, and pruning has deleted instructions from the original loop.
C28_Witness ==
    /\ Returned /\ result = "true"
    /\ \E j \in DOMAIN defsOut : Kind(fn, defsOut[j]) = "load"
    /\ Len(parts) < Len(Seeded)
    /\ InstsOfCopy(Orig) # LoopInsts(fn)
\* Nothing that is left reads undef: no instruction of a loop, no exit PHI
\* and no user outside the loops.
NoUndefOperand(i) ==
    /\ \A r \in DOMAIN i.insts : Undef \notin i.insts[r]
    /\ \A k \in DOMAIN i.exitPhis :
          \A n \in DOMAIN i.exitPhis[k].inc : i.exitPhis[k].inc[n].v # Undef
    /\ \A v \in DOMAIN i.outUses :
          \A j \in DOMAIN i.outUses[v] : i.outUses[v][j] # "undef"

\* C29: pruning feeds undef to nothing that survives: in the loop of every
\* partition an instruction that is deleted is used only by instructions
\* deleted from the same loop, by no exit PHI and by no user outside, so that
\* after removeUnusedInsts no retained instruction of a distributed loop and
\* no instruction outside the loops has an operand replaced by undef.
C29_PruningFeedsNoUndef ==
    [][pc = "prune" =>
          /\ \A x \in DOMAIN ir.insts \ DOMAIN ir'.insts :
                /\ \A r \in DOMAIN ir.insts :
                      x \in ir.insts[r]
                          => r \notin DOMAIN ir'.insts /\ r[1] = x[1]
                /\ \A k \in DOMAIN ir.exitPhis :
                      \A n \in DOMAIN ir.exitPhis[k].inc :
                          ir.exitPhis[k].inc[n].v # x
                /\ x[1] = Orig =>
                      \A j \in DOMAIN ir.outUses[x[2]] :
                          ir.outUses[x[2]][j] # "val"
          /\ NoUndefOperand(ir')]_vars

\* Pruning has deleted from the original loop an instruction together with
\* one that used it, in a loop with a value used outside.
C29_Witness ==
    /\ pc = "finish"
    /\ defsOut # <<>>
    /\ \E i, j \in LoopInsts(fn) \ InstsOfCopy(Orig) : i \in Ops(fn, j)
    /\ \E i, j \in LoopInsts(fn) \ InstsOfCopy(1) : i \in Ops(fn, j)
MemoryAccesses == {MemoryInstructions(fn)[k] : k \in DOMAIN MemoryInstructions(fn)}

\* InstToPartitionId has been set up.
IdsSetUp ==
    \/ pc \in {"version", "phis", "annotate", "clone", "prune", "finish"}
    \/ Returned /\ result = "true"

\* C30: in the final partition sequence every load and every store of the
\* loop belongs to exactly one partition, no stage ever putting a store into
\* a second partition, so that its entry in the instruction-to-partition map
\* is the position 0..N-1 of that partition and never -1; only instructions
\* that do not access memory map to -1.
C30_MemoryAccessesInOnePartition ==
    /\ parts # <<>> =>
          \A i \in MemoryAccesses :
              Kind(fn, i) = "store" => Cardinality(PartitionsOf(i)) = 1
    /\ IdsSetUp =>
          /\ \A i \in MemoryAccesses :
                /\ Cardinality(PartitionsOf(i)) = 1
                /\ i \in DOMAIN instToPart
                /\ instToPart[i] \in 0 .. Len(parts) - 1
                /\ PartitionsOf(i) = {instToPart[i] + 1}
          /\ \A i \in DOMAIN instToPart :
                instToPart[i] = Ambiguous => i \notin MemoryAccesses

\* The ids were set up on two or more partitions, an instruction that does
\* not access memory maps to -1, and a load that populateUsedSet had put
\* into two partitions maps to the one partition it was merged into.
C30_Witness ==
    /\ IdsSetUp
    /\ Len(parts) >= 2
    /\ \E i \in DOMAIN instToPart : instToPart[i] = Ambiguous
    /\ \E l \in Loads(fn) :
          /\ Cardinality(HoldersOf(PopulatedPartitions, l)) > 1
          /\ instToPart[l] \in 0 .. Len(parts) - 1
====
